---- MODULE Spec2Model ----
(***************************************************************************)
(* A model of the subwin live-caption pipeline: the caption stabilizer     *)
(* (crates/subwin-speech/src/stabilizer.rs), the caption composer, the     *)
(* transcription worker loop, the capture callback, the handoff buffer and *)
(* the session start (crates/subwin-backend/src/services/                  *)
(* transcription_service.rs) and the decoder adapter's rolling window and  *)
(* scheduling (crates/subwin-speech/src/whisper.rs), the downmix and the   *)
(* resamplers (src/audio/mixer.rs, src/audio/resampler.rs), the buffer     *)
(* sizing (crates/subwin-audio/src/lib.rs, device.rs), the device          *)
(* selection (crates/subwin-backend/src/services/audio_service.rs) and the *)
(* model download with the saved configuration (model_service.rs,          *)
(* crates/subwin-backend/src/config.rs).                                   *)
(*                                                                         *)
(* A text is a sequence of one-character strings, so that trimming and the *)
(* first/last character tests are computed as the code computes them.      *)
(* A caption segment is a record [start, end, text] (milliseconds).        *)
(***************************************************************************)
EXTENDS Integers, Sequences, FiniteSets, TLC

VARIABLES
    last_final_end_ms,  \* CaptionsStabilizer.last_final_end_ms
    push_call,          \* the latest push: [now, segments, last_before], or NoCall
    update,             \* the CaptionUpdate the latest push returned
    visits,             \* per visited segment of the latest push: what was decided
    history_segments,   \* the caller's history (update.history lists, concatenated)
    active_segments,    \* the caller's active list
    phase,              \* "idle": no update pending; "returned": update not yet taken
    total_samples_seen, \* the worker's cumulative sample counter
    transcriber,        \* WhisperTranscriber: since_last_decode, segment_window,
                        \* total_samples_seen
    last_sent_text,     \* the worker's last emitted composed text
    sent,               \* the TranscriptionStateUpdate events sent, in order
    iter,               \* what the latest worker iteration did
    accepted,           \* every sample passed to accept_samples, oldest first
    decode,             \* the transcriber's calls: what the latest try_transcribe
                        \* did, the latest engine invocation and the samples
                        \* accepted since
    callback_state,     \* ResampleCallbackState: the lengths of samples_accumulator
                        \* and of the resampler's frames_queue
    ring,               \* the handoff buffer: the samples in it, oldest first
    producer_open,      \* the capture stream, which owns the producer, is alive
    emitted,            \* the number of samples the resampler has emitted
    popped,             \* the samples the worker has popped, in the order popped
    capture,            \* the capture callback's calls: how many, the latest one
    worker_loop,        \* the worker thread: its position and its latest pop
    state,              \* State: config.active_model_path, active_audio_device,
                        \* active_stream
    model_file_exists,  \* the file system: the file at active_model_path exists
    outbox,             \* the messages sent to the frontend bridge, in order
    start,              \* handle_start_transcription_request: its position, the
                        \* requests dispatched, what the current one has created
    spawned_workers,    \* the number of transcription workers spawned
    streams,            \* the capture streams built, each "built", "playing" or
                        \* "dropped"
    workers,            \* the transcription workers spawned, each "loading" its
                        \* model, "running" its loop, or "panicked"
    selected_device_id, \* State: config.audio_device_config.selected_device_id
    persisted,          \* config.toml: the configuration save_config wrote last
    download,           \* the model download: its position, the configuration
                        \* it took with it, the requests and chunks so far
    mixer,              \* the downmix: its latest call's input, accumulator
                        \* before and after, and outcome
    resampler,          \* a resampler driven on its own: its queue, its totals
                        \* and its latest process_callback call
    sizing,             \* the buffer sizing: its latest call's inputs and result
    caption,            \* the caption composer: its latest call's inputs and
                        \* result
    decoded             \* a decode followed on its own: what try_transcribe
                        \* was given and what it returned

\* What a transcriber driven on its own adds to the transcriber's fields.
transcriber_vars == <<accepted, decode>>

worker_vars == <<total_samples_seen, transcriber, last_sent_text, sent, iter,
                 transcriber_vars>>

stabilizer_vars == <<last_final_end_ms, push_call, update, visits,
                     history_segments, active_segments, phase>>

pipeline_vars == <<stabilizer_vars, worker_vars>>

capture_vars == <<callback_state, ring, producer_open, emitted, popped, capture,
                  worker_loop>>

\* What the worker's model load, the saved configuration and the model
\* download add to the session.
service_vars == <<workers, selected_device_id, persisted, download>>

session_vars == <<state, model_file_exists, outbox, start, spawned_workers, streams,
                  service_vars>>

\* The functions driven on their own: downmix, resamplers, sizing, composer.
function_vars == <<mixer, resampler, sizing, caption, decoded>>

vars == <<last_final_end_ms, push_call, update, visits, history_segments,
          active_segments, phase, total_samples_seen, transcriber,
          last_sent_text, sent, iter, accepted, decode,
          callback_state, ring, producer_open, emitted, popped, capture,
          worker_loop, state, model_file_exists, outbox, start, spawned_workers,
          streams, workers, selected_device_id, persisted, download,
          mixer, resampler, sizing, caption, decoded>>

(***************************************************************************)
(* Program constants                                                       *)
(***************************************************************************)
TARGET_RATE == 16000

\* FIXED_FRAME_COUNT, the buffer size of a device that reports none
FIXED_FRAME_COUNT == 4096

STABILIZER_WINDOW_MILLISECONDS == 1500

CONTEXT_LENGTH_MILLISECONDS == 3000

REPEAT_RUN_MILLISECONDS == 500

dedupe_fuzz_ms == 80

tail_ms == STABILIZER_WINDOW_MILLISECONDS

(***************************************************************************)
(* Bounds                                                                  *)
(***************************************************************************)
MaxSegs == 3

\* The worker is followed until it has seen this many samples.
MaxTotalSamples == 28000

\* The engine returns at most this many segments per decode.
MaxEngineSegs == 1

\* The silent run ends once this many samples were pulled (3 s at 16 kHz).
MaxSilenceSamples == 48000

(***************************************************************************)
(* Texts                                                                   *)
(***************************************************************************)
TextA == <<"a">>

TextB == <<"b">>

TextC == <<"c">>

TextBlankAudio == <<"[", "B", "L", "A", "N", "K", "_", "A", "U", "D", "I", "O", "]">>

TextSpaceBlankAudio == <<" ">> \o TextBlankAudio

IsWhitespace(c) == c \in {" ", "\t", "\n", "\r"}

RECURSIVE TrimStart(_)
TrimStart(t) ==
    IF t = <<>> THEN <<>>
    ELSE IF IsWhitespace(Head(t)) THEN TrimStart(Tail(t))
    ELSE t

RECURSIVE TrimEnd(_)
TrimEnd(t) ==
    IF t = <<>> THEN <<>>
    ELSE IF IsWhitespace(t[Len(t)]) THEN TrimEnd(SubSeq(t, 1, Len(t) - 1))
    ELSE t

Trim(t) == TrimEnd(TrimStart(t))

StartsWith(t, c) == t /= <<>> /\ t[1] = c

EndsWith(t, c) == t /= <<>> /\ t[Len(t)] = c

(***************************************************************************)
(* CaptionsStabilizer::push                                                *)
(***************************************************************************)
Seg(s, e, t) == [start |-> s, end |-> e, text |-> t]

Range(seq) == {seq[i] : i \in DOMAIN seq}

KeyLe(a, b) == a.start < b.start \/ (a.start = b.start /\ a.end <= b.end)

\* Insert s behind every element whose key is <= its own (the sort is stable).
RECURSIVE InsertByKey(_, _)
InsertByKey(sorted, s) ==
    IF sorted = <<>> THEN <<s>>
    ELSE IF KeyLe(Head(sorted), s) THEN <<Head(sorted)>> \o InsertByKey(Tail(sorted), s)
    ELSE <<s>> \o sorted

RECURSIVE SortFrom(_, _)
SortFrom(sorted, rest) ==
    IF rest = <<>> THEN sorted
    ELSE SortFrom(InsertByKey(sorted, Head(rest)), Tail(rest))

SortUnsorted(segments) == segments

SortByKey(segments) == SortFrom(<<>>, segments)

CutoffMs(now) == now - tail_ms

IsNonSpeechNever(text) == FALSE

IsNonSpeech(text) == StartsWith(text, "[") /\ EndsWith(text, "]")

IsFinalCandidateStrict(segment, cutoff) == segment.end < cutoff

IsFinalCandidate(segment, cutoff) == segment.end <= cutoff

IsDuplicateNoFuzz(segment, last) == segment.end <= last

IsDuplicateNever(segment, last) == FALSE

IsDuplicate(segment, last) == segment.end <= last + dedupe_fuzz_ms

MaxI64(a, b) == IF a >= b THEN a ELSE b

\* One iteration of the loop over the sorted segments.  acc carries
\* last_final_end_ms, update.history and update.active; every visit is logged
\* with the value of last_final_end_ms before and after it and the lengths of
\* the two lists after it.
PushStep(acc, segment, cutoff) ==
    LET next ==
            IF IsNonSpeech(segment.text) THEN acc
            ELSE IF IsFinalCandidate(segment, cutoff)
            THEN IF IsDuplicate(segment, acc.last) THEN acc
                 ELSE [acc EXCEPT !.last = MaxI64(acc.last, segment.end),
                                  !.history = Append(@, segment)]
            ELSE [acc EXCEPT !.active = Append(@, segment)]
    IN  [next EXCEPT !.visits =
            Append(@, [seg |-> segment,
                       last_before |-> acc.last,
                       last_after |-> next.last,
                       history_len |-> Len(next.history),
                       active_len |-> Len(next.active)])]

RECURSIVE PushLoop(_, _, _)
PushLoop(acc, sorted, cutoff) ==
    IF sorted = <<>> THEN acc
    ELSE PushLoop(PushStep(acc, Head(sorted), cutoff), Tail(sorted), cutoff)

StabilizerPushStateless(last, now, segments) ==
    PushLoop([last |-> 0, history |-> <<>>, active |-> <<>>, visits |-> <<>>],
             SortByKey(segments), CutoffMs(now))

StabilizerPush(last, now, segments) ==
    PushLoop([last |-> last, history |-> <<>>, active |-> <<>>, visits |-> <<>>],
             SortByKey(segments), CutoffMs(now))

(***************************************************************************)
(* The stabilizer driven with arbitrary pushes                             *)
(***************************************************************************)
SegA == Seg(0, 500, TextA)

SegB == Seg(500, 1000, TextB)

SegC == Seg(1800, 2000, TextC)

SegDup == Seg(400, 500, TextA)

SegLate == Seg(400, 1040, TextB)

SegBlank == Seg(0, 1000, TextBlankAudio)

SegSpaceBlank == Seg(500, 1000, TextSpaceBlankAudio)

SegPool == {SegA, SegB, SegC, SegDup, SegLate, SegBlank, SegSpaceBlank}

NowPool == {2000, 3000}

SegLists == UNION {[1..n -> SegPool] : n \in 0..MaxSegs}

NoCall == [now |-> 0, segments |-> <<>>, last_before |-> 0]

EmptyUpdate == [history |-> <<>>, active |-> <<>>]

NoTranscriber == [since_last_decode |-> 0, segment_window |-> <<>>,
                  scratch_buffer |-> <<>>, total_samples_seen |-> 0]

\* No try_transcribe call yet and no engine invocation yet.
NoDecode == [call |-> "none", gap |-> 0, prev |-> "none",
             last |-> "none", since |-> 0]

NoIter == [reached |-> "none", pulled |-> 0, engine |-> "none", caption |-> <<>>,
           promoted |-> {}]

\* ResampleCallbackState::new: an empty accumulator and an empty queue.
NewCallbackState == [samples_accumulator |-> 0, frames_queue |-> 0]

\* No capture callback has run.
NoCapture == [callbacks |-> 0, data_len |-> 0, prev_data_len |-> 0,
              free_before |-> 0, offered |-> 0, stored |-> 0, found_full |-> FALSE]

\* The worker thread at the top of its loop, no pop made yet; lap is the
\* number of iterations completed, modulo 2.
NewWorkerLoop == [pc |-> "running", lap |-> 0, last_pop |-> 0]

\* No downmix was made yet: the accumulator is empty, as
\* Vec::with_capacity leaves it.
NoMix == [call |-> "none", calls |-> 0, channels |-> 2,
          target_buffer_size |-> 0, data |-> <<>>, before |-> <<>>,
          accumulator |-> <<>>, frames |-> 0, panicked |-> FALSE]

\* No buffer size was computed yet.
NoSizing == [call |-> "none", base |-> 0, rate |-> 0, gcd |-> 0,
             denominator |-> 0, result |-> 0]

\* Nothing was composed yet.
NoCaption == [called |-> FALSE, history |-> <<>>, active |-> <<>>,
              text |-> <<>>]

\* A resampler of the given kind as its constructor leaves it: nothing
\* received, queued, consumed or written, no call made.
NewResampler(kind, settings) ==
    [kind |-> kind, settings |-> settings, calls |-> 0, received |-> 0,
     queue |-> 0, consumed |-> 0, written |-> 0, callbacks |-> 0,
     call |-> "none", input_len |-> 0,
     result |-> [ok |-> TRUE, written |-> 0, expected |-> 0, actual |-> 0],
     before |-> [queue |-> 0, consumed |-> 0, written |-> 0, callbacks |-> 0]]

\* No resampler is driven on its own.
NoResampler ==
    NewResampler("none", [sample_rate |-> 0, channels |-> 1,
                          target_buffer_size |-> 0])

\* No decode was followed yet.
NoDecoded == [call |-> "none", engine |-> [ok |-> FALSE, segments |-> <<>>],
              segments |-> <<>>, total_samples_seen |-> 0, slice_len |-> 0]

\* The functions driven on their own, not yet called.
InitFunctions ==
    /\ mixer = NoMix
    /\ resampler = NoResampler
    /\ sizing = NoSizing
    /\ caption = NoCaption
    /\ decoded = NoDecoded

\* The capture side with the producer end in the given condition.
InitCapture(open) ==
    /\ callback_state = NewCallbackState
    /\ ring = <<>>
    /\ producer_open = open
    /\ emitted = 0
    /\ popped = <<>>
    /\ capture = NoCapture
    /\ worker_loop = NewWorkerLoop

InitPipeline ==
    /\ last_final_end_ms = 0
    /\ push_call = NoCall
    /\ update = EmptyUpdate
    /\ visits = <<>>
    /\ history_segments = <<>>
    /\ active_segments = <<>>
    /\ phase = "idle"
    /\ total_samples_seen = 0
    /\ transcriber = NoTranscriber
    /\ last_sent_text = <<>>
    /\ sent = <<>>
    /\ iter = NoIter
    /\ accepted = <<>>
    /\ decode = NoDecode

\* No StartTranscriptionRequest was dispatched yet.
NoStart == [pc |-> "idle", requests |-> 0, outcome |-> "none", worker |-> FALSE,
            stream |-> 0]

\* No DownloadModelRequest was dispatched yet.
NoDownload == [pc |-> "idle", requests |-> 0, chunks |-> 0,
               config |-> [selected_device_id |-> "None",
                           active_model_path |-> "None"]]

\* The backend after setup_backend, with the model path and the device the
\* loaded configuration names ("None" for none) and the model file there or
\* not; nothing sent, no worker, no stream, no download.
InitSession(model_path, device, file_exists) ==
    /\ state = [active_model_path |-> model_path, active_audio_device |-> device,
                active_stream |-> 0]
    /\ model_file_exists = file_exists
    /\ outbox = <<>>
    /\ start = NoStart
    /\ spawned_workers = 0
    /\ streams = <<>>
    /\ workers = <<>>
    /\ selected_device_id = device
    /\ persisted = [selected_device_id |-> device, active_model_path |-> model_path]
    /\ download = NoDownload

\* The pipeline's parts before any capture stream exists.
Init ==
    /\ InitPipeline
    /\ InitCapture(FALSE)
    /\ InitSession("None", "None", FALSE)
    /\ InitFunctions

\* stabilizer.push(now, segments)
Push(now, segments) ==
    /\ phase = "idle"
    /\ \E r \in {StabilizerPush(last_final_end_ms, now, segments)} :
           /\ last_final_end_ms' = r.last
           /\ update' = [history |-> r.history, active |-> r.active]
           /\ visits' = r.visits
    /\ push_call' = [now |-> now, segments |-> segments,
                     last_before |-> last_final_end_ms]
    /\ phase' = "returned"
    /\ UNCHANGED <<history_segments, active_segments>>
    /\ UNCHANGED worker_vars
    /\ UNCHANGED capture_vars
    /\ UNCHANGED session_vars
    /\ UNCHANGED function_vars

\* The caller takes the update and appends its history to the history it keeps.
CollectHistory ==
    /\ phase = "returned"
    /\ history_segments' = history_segments \o update.history
    /\ push_call' = NoCall
    /\ update' = EmptyUpdate
    /\ visits' = <<>>
    /\ phase' = "idle"
    /\ UNCHANGED <<last_final_end_ms, active_segments>>
    /\ UNCHANGED worker_vars
    /\ UNCHANGED capture_vars
    /\ UNCHANGED session_vars
    /\ UNCHANGED function_vars

PushAny == \E now \in NowPool, segments \in SegLists : Push(now, segments)

Next == PushAny \/ CollectHistory

Spec == Init /\ [][Next]_vars

(***************************************************************************)
(* Caption composer                                                        *)
(***************************************************************************)
\* The trimmed texts of the segments, the empty ones too.
TextPartsKeepEmpty(segments) ==
    [i \in DOMAIN segments |-> Trim(segments[i].text)]

\* The trimmed, non-empty texts of the segments, in order.
RECURSIVE TextParts(_)
TextParts(segments) ==
    IF segments = <<>> THEN <<>>
    ELSE LET text == Trim(Head(segments).text)
         IN  (IF text /= <<>> THEN <<text>> ELSE <<>>) \o TextParts(Tail(segments))

RECURSIVE JoinWithSpace(_)
JoinWithSpace(parts) ==
    IF parts = <<>> THEN <<>>
    ELSE IF Len(parts) = 1 THEN parts[1]
    ELSE parts[1] \o <<" ">> \o JoinWithSpace(Tail(parts))

segments_to_text(segments) == JoinWithSpace(TextParts(segments))

compose_caption_text(history, active) ==
    LET history_text == segments_to_text(history)
        active_text == segments_to_text(active)
    IN  IF history_text = <<>> THEN active_text
        ELSE IF active_text = <<>> THEN history_text
        ELSE history_text \o <<" ">> \o active_text

(***************************************************************************)
(* Decoder adapter (WhisperTranscriber)                                    *)
(*                                                                         *)
(* The rolling window is kept run-length encoded: a sequence of runs       *)
(* [n, v], n consecutive samples of value v, oldest first.  A sample value *)
(* is an integer number of thousandths, so that the -60 dB gate            *)
(* (rms <= 0.001) is "mean square <= 1".                                   *)
(***************************************************************************)
Min(a, b) == IF a <= b THEN a ELSE b

\* Rust's integer division truncates toward zero.
TruncDiv(a, b) == IF a >= 0 THEN a \div b ELSE -((-a) \div b)

milliseconds_to_samples(milliseconds, sample_rate) ==
    (sample_rate * milliseconds) \div 1000

min_transcription_samples(sample_rate) == sample_rate \div 10

length_samples == milliseconds_to_samples(CONTEXT_LENGTH_MILLISECONDS, TARGET_RATE)

repeat_run_samples == milliseconds_to_samples(REPEAT_RUN_MILLISECONDS, TARGET_RATE)

min_transcode_samples == min_transcription_samples(TARGET_RATE)

RECURSIVE WindowLen(_)
WindowLen(w) == IF w = <<>> THEN 0 ELSE Head(w).n + WindowLen(Tail(w))

RECURSIVE SumOfSquares(_)
SumOfSquares(w) ==
    IF w = <<>> THEN 0 ELSE Head(w).n * Head(w).v * Head(w).v + SumOfSquares(Tail(w))

\* extend: n samples of value v behind the window
ExtendWindow(w, n, v) ==
    IF n = 0 THEN w
    ELSE IF w /= <<>> /\ w[Len(w)].v = v
    THEN [w EXCEPT ![Len(w)].n = @ + n]
    ELSE Append(w, [n |-> n, v |-> v])

RECURSIVE DrainBack(_, _)
DrainBack(w, drop) ==
    IF drop = 0 \/ w = <<>> THEN w
    ELSE IF w[Len(w)].n <= drop
    THEN DrainBack(SubSeq(w, 1, Len(w) - 1), drop - w[Len(w)].n)
    ELSE [w EXCEPT ![Len(w)].n = @ - drop]

\* drain(..drop): the oldest drop samples leave the window
RECURSIVE DrainFront(_, _)
DrainFront(w, drop) ==
    IF drop = 0 \/ w = <<>> THEN w
    ELSE IF Head(w).n <= drop THEN DrainFront(Tail(w), drop - Head(w).n)
    ELSE <<[n |-> Head(w).n - drop, v |-> Head(w).v]>> \o Tail(w)

\* accept_samples with the count of samples seen left as it was.
accept_samples_uncounted(t, n, v) ==
    [t EXCEPT !.since_last_decode = @ + n,
              !.segment_window = ExtendWindow(@, n, v)]

accept_samples(t, n, v) ==
    LET extended == ExtendWindow(t.segment_window, n, v)
        len == WindowLen(extended)
    IN  [since_last_decode |-> t.since_last_decode + n,
         segment_window |->
             IF len > length_samples THEN DrainFront(extended, len - length_samples)
             ELSE extended,
         scratch_buffer |-> t.scratch_buffer,
         total_samples_seen |-> t.total_samples_seen + n]

\* The slice handed to the engine: the window, or the window zero-padded to
\* min_transcode_samples.
TranscodeAudio(t) ==
    IF WindowLen(t.segment_window) >= min_transcode_samples THEN t.segment_window
    ELSE ExtendWindow(t.segment_window,
                      min_transcode_samples - WindowLen(t.segment_window), 0)

IsSilentNever(audio) == FALSE

\* rms == 0.0 || 20 * log10(rms) <= -60
IsSilent(audio) ==
    LET len == WindowLen(audio)
    IN  len = 0 \/ SumOfSquares(audio) = 0 \/ SumOfSquares(audio) <= len

\* Every segment of the inference, blank or not, with absolute timestamps.
CaptionSegmentsKeepBlank(engine_segments, window_start_ms) ==
    [i \in DOMAIN engine_segments |->
        Seg(window_start_ms + engine_segments[i].start_cs * 10,
            window_start_ms + engine_segments[i].end_cs * 10,
            engine_segments[i].text)]

\* The segments of a successful inference, with absolute timestamps; segments
\* whose text trims to nothing are left out.
RECURSIVE CaptionSegments(_, _)
CaptionSegments(engine_segments, window_start_ms) ==
    IF engine_segments = <<>> THEN <<>>
    ELSE LET e == Head(engine_segments)
         IN  (IF Trim(e.text) = <<>> THEN <<>>
              ELSE <<Seg(window_start_ms + e.start_cs * 10,
                         window_start_ms + e.end_cs * 10, e.text)>>)
             \o CaptionSegments(Tail(engine_segments), window_start_ms)

FastExitNever(t) == FALSE

\* self.since_last_decode < self.repeat_run_samples
FastExit(t) == t.since_last_decode < repeat_run_samples

\* The transcriber after transcode_audio was taken: a window shorter than
\* min_transcode_samples is copied to the scratch buffer and zero-padded
\* there, a longer one is made contiguous in place.
WithScratch(t) ==
    IF WindowLen(t.segment_window) >= min_transcode_samples THEN t
    ELSE [t EXCEPT !.scratch_buffer = TranscodeAudio(t)]

SilenceGateKeepsCounter(t) == [t |-> t, segments |-> <<>>, engine |-> "gated"]

\* self.since_last_decode = 0; return (Vec::new(), 0)
SilenceGate(t) ==
    [t |-> [t EXCEPT !.since_last_decode = 0], segments |-> <<>>,
     engine |-> "gated"]

\* try_transcribe; engine is what the inference would return if it is invoked.
\* The result carries the transcriber afterwards, the segments returned and
\* whether the engine was invoked.
try_transcribe(t, engine) ==
    IF FastExit(t)
    THEN [t |-> t, segments |-> <<>>, engine |-> "skipped"]
    ELSE LET audio == TranscodeAudio(t)
             transcoded == WithScratch(t)
             window_start_ms ==
                 TruncDiv((t.total_samples_seen - WindowLen(audio)) * 1000, TARGET_RATE)
         IN  IF IsSilent(audio)
             THEN SilenceGate(transcoded)
             ELSE IF ~engine.ok
             THEN [t |-> transcoded, segments |-> <<>>, engine |-> "failed"]
             ELSE [t |-> [transcoded EXCEPT !.since_last_decode = 0],
                   segments |-> CaptionSegments(engine.segments, window_start_ms),
                   engine |-> "ok"]

(***************************************************************************)
(* Transcription worker                                                    *)
(***************************************************************************)
ShouldSkipOnlyEmpty(caption_text, last_text) == caption_text = <<>>

\* caption_text.is_empty() || caption_text == last_sent_text
ShouldSkip(caption_text, last_text) == caption_text = <<>> \/ caption_text = last_text

\* history_segments.extend(update.history)
ExtendHistory(history, update_history) == history \o update_history

\* What the engine may return for a window: relative centisecond timestamps.
EngineSeg(s, e, t) == [start_cs |-> s, end_cs |-> e, text |-> t]

EngineSegPool ==
    { EngineSeg(0, 25, TextA),
      EngineSeg(25, 50, <<" ">> \o TextB),
      EngineSeg(0, 50, <<"[", "x", "]">>) }

EngineResults ==
    {[ok |-> FALSE, segments |-> <<>>]}
    \cup {[ok |-> TRUE, segments |-> segs] :
            segs \in UNION {[1..n -> EngineSegPool] : n \in 0..MaxEngineSegs}}

PullLens == {4000, 8000}

SampleValues == {0, 100}

\* One iteration of the worker loop that pulled len > 0 samples of value v;
\* the run ends once max_total samples were pulled.
WorkerIterationUpTo(len, v, engine, max_total) ==
    /\ phase = "idle"
    /\ total_samples_seen + len <= max_total
    /\ \E total \in {total_samples_seen + len} :
       \E r \in {try_transcribe(accept_samples(transcriber, len, v), engine)} :
       \E now_milliseconds \in {TruncDiv(total * 1000, TARGET_RATE)} :
       \E p \in {StabilizerPush(last_final_end_ms, now_milliseconds, r.segments)} :
       \E history \in {ExtendHistory(history_segments, p.history)} :
       \E caption_text \in {compose_caption_text(history, p.active)} :
       \E empty_update \in {p.active = <<>> /\ p.history = <<>>} :
       \E skip \in {ShouldSkip(caption_text, last_sent_text)} :
           /\ total_samples_seen' = total
           /\ transcriber' = r.t
           /\ last_final_end_ms' = p.last
           /\ push_call' = [now |-> now_milliseconds, segments |-> r.segments,
                            last_before |-> last_final_end_ms]
           /\ update' = [history |-> p.history, active |-> p.active]
           /\ visits' = p.visits
           /\ IF empty_update
              THEN UNCHANGED <<history_segments, active_segments, last_sent_text, sent>>
              ELSE /\ history_segments' = history
                   /\ active_segments' = p.active
                   /\ IF skip
                      THEN UNCHANGED <<last_sent_text, sent>>
                      ELSE /\ last_sent_text' = caption_text
                           /\ sent' = Append(sent, [new_segment_text |-> caption_text])
           /\ iter' = [reached |-> IF empty_update THEN "empty_update"
                                   ELSE IF skip THEN "suppressed" ELSE "sent",
                       pulled |-> len,
                       engine |-> r.engine,
                       caption |-> IF empty_update THEN <<>> ELSE caption_text,
                       promoted |-> IF empty_update THEN {}
                                    ELSE Range(active_segments) \cap Range(p.history)]
    /\ UNCHANGED phase
    /\ UNCHANGED transcriber_vars
    /\ UNCHANGED capture_vars
    /\ UNCHANGED session_vars
    /\ UNCHANGED function_vars

WorkerIteration(len, v, engine) ==
    WorkerIterationUpTo(len, v, engine, MaxTotalSamples)

\* pop_slice returned 0: the loop continues.
WorkerPullNothing ==
    /\ phase = "idle"
    /\ UNCHANGED vars

WorkerPull ==
    \E len \in PullLens, v \in SampleValues, engine \in EngineResults :
        WorkerIteration(len, v, engine)

NextWorker == WorkerPull \/ WorkerPullNothing

SpecWorker == Init /\ [][NextWorker]_vars

(***************************************************************************)
(* The worker fed with silence only: every sample pulled is 0.0, in pulls  *)
(* of any of the lengths below.                                            *)
(***************************************************************************)
SilencePullLens == {1000, 3000, 8000, 12000}

WorkerPullSilence ==
    \E len \in SilencePullLens, engine \in EngineResults :
        WorkerIterationUpTo(len, 0, engine, MaxSilenceSamples)

NextSilence == WorkerPullSilence \/ WorkerPullNothing

SpecSilence == Init /\ [][NextSilence]_vars

(***************************************************************************)
(* The transcriber driven on its own: accept_samples and try_transcribe    *)
(* called in any order, with chunks of any of the lengths below.           *)
(***************************************************************************)
\* accept_samples is called until this many samples were accepted: in the
\* runs that follow the rolling window, and in the runs that follow the
\* decode attempts.
MaxAccepted == 56000

MaxDecodeSamples == 24000

AcceptLens == {4000, 8000, 16000}

\* What an engine invocation is remembered as: "failed", "empty" (no segment
\* came back) or "ok".
EngineOutcome(engine) ==
    IF ~engine.ok THEN "failed"
    ELSE IF engine.segments = <<>> THEN "empty" ELSE "ok"

\* transcriber.accept_samples(n samples of value v)
AcceptSamples(n, v, max_accepted) ==
    /\ phase = "idle"
    /\ WindowLen(accepted) + n <= max_accepted
    /\ transcriber' = accept_samples(transcriber, n, v)
    /\ accepted' = ExtendWindow(accepted, n, v)
    /\ decode' = [decode EXCEPT !.call = "none", !.since = @ + n]
    /\ UNCHANGED <<total_samples_seen, last_sent_text, sent, iter>>
    /\ UNCHANGED stabilizer_vars
    /\ UNCHANGED capture_vars
    /\ UNCHANGED session_vars
    /\ UNCHANGED function_vars

\* transcriber.try_transcribe(params); engine is what the inference returns
\* if it is invoked.
TryTranscribe(engine) ==
    /\ phase = "idle"
    /\ \E r \in {try_transcribe(transcriber, engine)} :
           /\ transcriber' = r.t
           /\ decode' =
                 IF r.engine \in {"ok", "failed"}
                 THEN [call |-> r.engine, gap |-> decode.since, prev |-> decode.last,
                       last |-> EngineOutcome(engine), since |-> 0]
                 ELSE [decode EXCEPT !.call = r.engine]
    /\ UNCHANGED <<total_samples_seen, last_sent_text, sent, iter, accepted>>
    /\ UNCHANGED stabilizer_vars
    /\ UNCHANGED capture_vars
    /\ UNCHANGED session_vars
    /\ UNCHANGED function_vars

AcceptAny ==
    \E n \in AcceptLens, v \in SampleValues : AcceptSamples(n, v, MaxDecodeSamples)

TryAny == \E engine \in EngineResults : TryTranscribe(engine)

NextTranscriber == AcceptAny \/ TryAny

SpecTranscriber == Init /\ [][NextTranscriber]_vars

\* The gates of try_transcribe: chunks of silence, of quiet audio (0.001)
\* and of loud audio (0.1) are accepted until this many samples were.
MaxGateSamples == 20000

GateLens == {4000, 8000}

GateSampleValues == {0, 1, 100}

AcceptGate ==
    \E n \in GateLens, v \in GateSampleValues : AcceptSamples(n, v, MaxGateSamples)

NextGate == AcceptGate \/ TryAny

SpecGate == Init /\ [][NextGate]_vars

\* The rolling window alone: accept_samples called until the window has slid.
AcceptLong ==
    \E n \in AcceptLens, v \in SampleValues : AcceptSamples(n, v, MaxAccepted)

NextWindow == AcceptLong

SpecWindow == Init /\ [][NextWindow]_vars

(***************************************************************************)
(* Capture callback, handoff buffer and the worker's pops                  *)
(*                                                                         *)
(* A sample in the handoff buffer is known by its emission index: the k-th *)
(* sample the resampler emitted is k.  A list of samples is kept as a      *)
(* sequence of runs [lo, hi] of consecutive indices, oldest first.         *)
(***************************************************************************)
\* The capture callback runs until it was called this many times.
MaxCallbacks == 13

\* What derive_audio_device_settings returned for the device of the session.
DeviceSettings == [sample_rate |-> 48000, channels |-> 2, target_buffer_size |-> 15000]

\* BlockingHeapRb::new((TARGET_RATE * 3) as usize)
RingCapacity == TARGET_RATE * 3

\* data.len() the callback expects: target_buffer_size * channels
ExpectedSamples(settings) == settings.target_buffer_size * settings.channels

\* The resampler built for (sample_rate -> TARGET_RATE, target_buffer_size):
\* the frames it wants per step and the frames it writes per step.
InputFramesNext(settings) == settings.target_buffer_size

OutputFrames(settings) ==
    (settings.target_buffer_size * TARGET_RATE) \div settings.sample_rate

\* The lengths of the buffers the device hands to the callback.
DataLens ==
    { ExpectedSamples(DeviceSettings),
      ExpectedSamples(DeviceSettings) - DeviceSettings.channels,
      DeviceSettings.target_buffer_size }

RECURSIVE Occupancy(_)
Occupancy(r) ==
    IF r = <<>> THEN 0 ELSE (Head(r).hi - Head(r).lo + 1) + Occupancy(Tail(r))

\* A run put behind a list of runs.
AppendRun(r, run) ==
    IF r /= <<>> /\ r[Len(r)].hi + 1 = run.lo
    THEN [r EXCEPT ![Len(r)].hi = run.hi]
    ELSE Append(r, run)

RECURSIVE AppendRuns(_, _)
AppendRuns(r, runs) ==
    IF runs = <<>> THEN r ELSE AppendRuns(AppendRun(r, Head(runs)), Tail(runs))

PushSliceUnbounded(r, lo, n) == AppendRun(r, [lo |-> lo, hi |-> lo + n - 1])

\* producer.push_slice(elems): the samples lo .. lo + n - 1 are offered, the
\* first ones that fit are stored, the call returns.
PushSlice(r, lo, n) ==
    LET count == Min(RingCapacity - Occupancy(r), n)
    IN  IF count = 0 THEN r ELSE AppendRun(r, [lo |-> lo, hi |-> lo + count - 1])

\* The n oldest samples of r, and r without them.
RECURSIVE TakeFront(_, _)
TakeFront(r, n) ==
    IF n = 0 \/ r = <<>> THEN <<>>
    ELSE LET len == Head(r).hi - Head(r).lo + 1
         IN  IF len <= n THEN <<Head(r)>> \o TakeFront(Tail(r), n - len)
             ELSE <<[lo |-> Head(r).lo, hi |-> Head(r).lo + n - 1]>>

RECURSIVE DropFront(_, _)
DropFront(r, n) ==
    IF n = 0 \/ r = <<>> THEN r
    ELSE LET len == Head(r).hi - Head(r).lo + 1
         IN  IF len <= n THEN DropFront(Tail(r), n - len)
             ELSE <<[lo |-> Head(r).lo + n, hi |-> Head(r).hi]>> \o Tail(r)

\* The n newest samples of r, newest run first, and r without them.
RECURSIVE TakeBack(_, _)
TakeBack(r, n) ==
    IF n = 0 \/ r = <<>> THEN <<>>
    ELSE LET last == r[Len(r)]
             len == last.hi - last.lo + 1
         IN  IF len <= n THEN <<last>> \o TakeBack(SubSeq(r, 1, Len(r) - 1), n - len)
             ELSE <<[lo |-> last.hi - n + 1, hi |-> last.hi]>>

RECURSIVE DropBack(_, _)
DropBack(r, n) ==
    IF n = 0 \/ r = <<>> THEN r
    ELSE LET last == r[Len(r)]
             len == last.hi - last.lo + 1
         IN  IF len <= n THEN DropBack(SubSeq(r, 1, Len(r) - 1), n - len)
             ELSE [r EXCEPT ![Len(r)].hi = @ - n]

PopSliceNewest(r, buffer_len) ==
    LET count == Min(Occupancy(r), buffer_len)
    IN  [len |-> count, samples |-> TakeBack(r, count), ring |-> DropBack(r, count)]

\* consumer.pop_slice(elems): the oldest samples, as many as are there and fit
\* the slice, leave the buffer; the call returns their number, 0 when the
\* buffer is empty.
PopSlice(r, buffer_len) ==
    LET count == Min(Occupancy(r), buffer_len)
    IN  [len |-> count, samples |-> TakeFront(r, count), ring |-> DropFront(r, count)]

\* StreamingResampler::process_callback after frames_queue.extend(input):
\* while the queue holds a block, the block leaves the queue, is resampled
\* and the output is handed to the callback, which pushes it.
RECURSIVE ResamplerLoop(_, _, _, _)
ResamplerLoop(queue, r, count, settings) ==
    IF queue < InputFramesNext(settings)
    THEN [frames_queue |-> queue, ring |-> r, emitted |-> count]
    ELSE ResamplerLoop(queue - InputFramesNext(settings),
                       PushSlice(r, count + 1, OutputFrames(settings)),
                       count + OutputFrames(settings), settings)

\* The callback with the length check left out.
process_input_unchecked(cs, r, count, data_len, settings) ==
    LET received_frames == data_len \div settings.channels
        out == ResamplerLoop(cs.frames_queue + received_frames, r, count, settings)
    IN  [callback_state |-> [samples_accumulator |-> received_frames,
                             frames_queue |-> out.frames_queue],
         ring |-> out.ring, emitted |-> out.emitted]

\* ResampleCallbackState::process_input(data, producer)
process_input(cs, r, count, data_len, settings) ==
    IF data_len /= ExpectedSamples(settings)
    THEN [callback_state |-> cs, ring |-> r, emitted |-> count]
    ELSE LET received_frames == data_len \div settings.channels
             out == ResamplerLoop(cs.frames_queue + received_frames, r, count, settings)
         IN  [callback_state |-> [samples_accumulator |-> received_frames,
                                  frames_queue |-> out.frames_queue],
              ring |-> out.ring, emitted |-> out.emitted]

\* The device calls the capture callback with data_len interleaved samples.
CaptureCallback(data_len) ==
    /\ producer_open
    /\ capture.callbacks < MaxCallbacks
    /\ \E out \in {process_input(callback_state, ring, emitted, data_len, DeviceSettings)} :
           /\ callback_state' = out.callback_state
           /\ ring' = out.ring
           /\ emitted' = out.emitted
           /\ capture' = [callbacks |-> capture.callbacks + 1,
                          data_len |-> data_len,
                          prev_data_len |-> capture.data_len,
                          free_before |-> RingCapacity - Occupancy(ring),
                          offered |-> out.emitted - emitted,
                          stored |-> Occupancy(out.ring) - Occupancy(ring),
                          found_full |-> capture.found_full
                              \/ Occupancy(out.ring) - Occupancy(ring) < out.emitted - emitted]
    /\ UNCHANGED <<producer_open, popped, worker_loop>>
    /\ UNCHANGED pipeline_vars
    /\ UNCHANGED session_vars
    /\ UNCHANGED function_vars

\* The top of one iteration of the worker loop: the pop into samples_buffer
\* (target_buffer_size long) and the test of its result.  What the iteration
\* does with the samples is WorkerIteration and does not touch the buffer.
WorkerLoop ==
    /\ worker_loop.pc = "running"
    /\ \E pop \in {PopSlice(ring, DeviceSettings.target_buffer_size)} :
           /\ ring' = pop.ring
           /\ popped' = AppendRuns(popped, pop.samples)
           /\ worker_loop' = [pc |-> "running", lap |-> 1 - worker_loop.lap,
                              last_pop |-> pop.len]
    /\ UNCHANGED <<callback_state, producer_open, emitted, capture>>
    /\ UNCHANGED pipeline_vars
    /\ UNCHANGED session_vars
    /\ UNCHANGED function_vars

\* The capture stream is dropped: its callback, and the producer the callback
\* owns, are gone.
DropStream ==
    /\ producer_open
    /\ producer_open' = FALSE
    /\ UNCHANGED <<callback_state, ring, emitted, popped, capture, worker_loop>>
    /\ UNCHANGED pipeline_vars
    /\ UNCHANGED session_vars
    /\ UNCHANGED function_vars

CaptureAny == \E data_len \in DataLens : CaptureCallback(data_len)

\* A session that was started: the buffer is created and split, the worker
\* holds the consumer and the stream's callback holds the producer.
InitStreaming ==
    /\ InitPipeline
    /\ InitCapture(TRUE)
    /\ state = [active_model_path |-> "model", active_audio_device |-> "device",
                active_stream |-> 1]
    /\ model_file_exists = TRUE
    /\ outbox = <<[message |-> "TranscriptionStartedResponse",
                   notification_type |-> "", text |-> ""]>>
    /\ start = [pc |-> "idle", requests |-> 1, outcome |-> "started",
                worker |-> TRUE, stream |-> 1]
    /\ spawned_workers = 1
    /\ workers = <<"running">>
    /\ selected_device_id = "device"
    /\ persisted = [selected_device_id |-> "device", active_model_path |-> "model"]
    /\ download = NoDownload
    /\ InitFunctions
    /\ streams = <<"playing">>

NextHandoff == CaptureAny \/ WorkerLoop \/ DropStream

SpecHandoff == InitStreaming /\ [][NextHandoff]_vars

\* The worker thread is scheduled: a pop that changes anything is not put
\* off forever.
SpecHandoffFair == InitStreaming /\ [][NextHandoff]_vars /\ WF_vars(WorkerLoop)

(***************************************************************************)
(* Session start: handle_start_transcription_request, step by step, among  *)
(* the other handlers of the backend task.  The handlers run one at a      *)
(* time: dispatch_message is awaited before the next message is received.  *)
(***************************************************************************)
\* StartTranscriptionRequest is dispatched at most this many times.
MaxStartRequests == 3

NotificationMessage(notification_type, text) ==
    [message |-> "NotificationMessage", notification_type |-> notification_type,
     text |-> text]

TranscriptionStartedResponse ==
    [message |-> "TranscriptionStartedResponse", notification_type |-> "", text |-> ""]

\* The checks with the one for the device left out.
load_transcription_inputs_any_device(st, file_exists) ==
    IF st.active_model_path = "None"
    THEN [ok |-> FALSE, text |-> "download a model first"]
    ELSE IF ~file_exists
    THEN [ok |-> FALSE, text |-> "the downloaded model is damaged"]
    ELSE [ok |-> TRUE, text |-> ""]

\* load_transcription_inputs: the inputs, or the text of the error
\* notification it sends before it returns None.
load_transcription_inputs(st, file_exists) ==
    IF st.active_model_path = "None"
    THEN [ok |-> FALSE, text |-> "download a model first"]
    ELSE IF ~file_exists
    THEN [ok |-> FALSE, text |-> "the downloaded model is damaged"]
    ELSE IF st.active_audio_device = "None"
    THEN [ok |-> FALSE, text |-> "select an input device"]
    ELSE [ok |-> TRUE, text |-> ""]

StoreNoStream(st, stream) == st

\* state.active_stream = Some(audio_stream)
StoreStream(st, stream) == [st EXCEPT !.active_stream = stream]

\* The request is dispatched and the inputs are loaded; without them the
\* handler has sent its notification and returned.
StartLoadInputs ==
    /\ start.pc = "idle"
    /\ start.requests < MaxStartRequests
    /\ \E inputs \in {load_transcription_inputs(state, model_file_exists)} :
           IF inputs.ok
           THEN /\ start' = [pc |-> "inputs", requests |-> start.requests + 1,
                             outcome |-> "none", worker |-> FALSE, stream |-> 0]
                /\ UNCHANGED outbox
           ELSE /\ start' = [pc |-> "idle", requests |-> start.requests + 1,
                             outcome |-> "rejected", worker |-> FALSE, stream |-> 0]
                /\ outbox' = Append(outbox, NotificationMessage("Error", inputs.text))
    /\ UNCHANGED <<state, model_file_exists, spawned_workers, streams>>
    /\ UNCHANGED service_vars
    /\ UNCHANGED pipeline_vars
    /\ UNCHANGED capture_vars
    /\ UNCHANGED function_vars

\* derive_audio_device_settings; the device may refuse to tell its
\* configuration, and the handler panics.
StartDeriveSettings(ok) ==
    /\ start.pc = "inputs"
    /\ start' = [start EXCEPT !.pc = IF ok THEN "settings" ELSE "panicked",
                              !.outcome = IF ok THEN @ ELSE "panicked"]
    /\ UNCHANGED <<state, model_file_exists, outbox, spawned_workers, streams>>
    /\ UNCHANGED service_vars
    /\ UNCHANGED pipeline_vars
    /\ UNCHANGED capture_vars
    /\ UNCHANGED function_vars

\* The handoff buffer is created and split and the worker is spawned with
\* the consumer; the worker loads its model on its own thread.
StartSpawnWorker ==
    /\ start.pc = "settings"
    /\ spawned_workers' = spawned_workers + 1
    /\ workers' = Append(workers, "loading")
    /\ start' = [start EXCEPT !.pc = "spawned", !.worker = TRUE]
    /\ UNCHANGED <<state, model_file_exists, outbox, streams>>
    /\ UNCHANGED <<selected_device_id, persisted, download>>
    /\ UNCHANGED pipeline_vars
    /\ UNCHANGED capture_vars
    /\ UNCHANGED function_vars

\* build_audio_stream; opening the input stream may fail, and the handler
\* panics.
StartBuildStream(ok) ==
    /\ start.pc = "spawned"
    /\ IF ok
       THEN /\ streams' = Append(streams, "built")
            /\ start' = [start EXCEPT !.pc = "built", !.stream = Len(streams) + 1]
       ELSE /\ start' = [start EXCEPT !.pc = "panicked", !.outcome = "panicked"]
            /\ UNCHANGED streams
    /\ UNCHANGED <<state, model_file_exists, outbox, spawned_workers>>
    /\ UNCHANGED service_vars
    /\ UNCHANGED pipeline_vars
    /\ UNCHANGED capture_vars
    /\ UNCHANGED function_vars

\* audio_stream.play(); on failure the handler panics and the stream it
\* holds is dropped.
StartPlayStream(ok) ==
    /\ start.pc = "built"
    /\ streams' = [streams EXCEPT ![start.stream] = IF ok THEN "playing" ELSE "dropped"]
    /\ start' = [start EXCEPT !.pc = IF ok THEN "playing" ELSE "panicked",
                              !.outcome = IF ok THEN @ ELSE "panicked"]
    /\ UNCHANGED <<state, model_file_exists, outbox, spawned_workers>>
    /\ UNCHANGED service_vars
    /\ UNCHANGED pipeline_vars
    /\ UNCHANGED capture_vars
    /\ UNCHANGED function_vars

\* The stream is stored in the session state; the stream stored there
\* before, if any, is dropped.
StartStoreStream ==
    /\ start.pc = "playing"
    /\ state' = StoreStream(state, start.stream)
    /\ streams' = IF state.active_stream /= 0 /\ state'.active_stream /= state.active_stream
                  THEN [streams EXCEPT ![state.active_stream] = "dropped"]
                  ELSE streams
    /\ start' = [start EXCEPT !.pc = "stored"]
    /\ UNCHANGED <<model_file_exists, outbox, spawned_workers>>
    /\ UNCHANGED service_vars
    /\ UNCHANGED pipeline_vars
    /\ UNCHANGED capture_vars
    /\ UNCHANGED function_vars

\* TranscriptionStartedResponse is sent and the handler returns.
StartSendStarted ==
    /\ start.pc = "stored"
    /\ outbox' = Append(outbox, TranscriptionStartedResponse)
    /\ start' = [start EXCEPT !.pc = "idle", !.outcome = "started"]
    /\ UNCHANGED <<state, model_file_exists, spawned_workers, streams>>
    /\ UNCHANGED service_vars
    /\ UNCHANGED pipeline_vars
    /\ UNCHANGED capture_vars
    /\ UNCHANGED function_vars

\* handle_audio_device_selection: a device that is found becomes the active
\* device and the configuration is saved; the handler panics when the save
\* fails.  A device that is not found changes nothing.
SelectAudioDevice(found, saved) ==
    /\ start.pc = "idle"
    /\ IF found
       THEN /\ state' = [state EXCEPT !.active_audio_device = "device"]
            /\ selected_device_id' = "device"
            /\ persisted' = IF saved
                            THEN [selected_device_id |-> "device",
                                  active_model_path |-> state.active_model_path]
                            ELSE persisted
            /\ start' = IF saved THEN start
                        ELSE [start EXCEPT !.pc = "panicked", !.outcome = "panicked"]
       ELSE UNCHANGED <<state, start, selected_device_id, persisted>>
    /\ UNCHANGED <<model_file_exists, outbox, spawned_workers, streams>>
    /\ UNCHANGED <<workers, download>>
    /\ UNCHANGED pipeline_vars
    /\ UNCHANGED capture_vars
    /\ UNCHANGED function_vars

\* The file system: the model file is removed, or is put back.
ModelFileChanges ==
    /\ model_file_exists' = ~model_file_exists
    /\ UNCHANGED <<state, outbox, start, spawned_workers, streams>>
    /\ UNCHANGED service_vars
    /\ UNCHANGED pipeline_vars
    /\ UNCHANGED capture_vars
    /\ UNCHANGED function_vars

StartDeriveAny == \E ok \in BOOLEAN : StartDeriveSettings(ok)

StartBuildAny == \E ok \in BOOLEAN : StartBuildStream(ok)

StartPlayAny == \E ok \in BOOLEAN : StartPlayStream(ok)

SelectAny == \E found \in BOOLEAN, saved \in BOOLEAN : SelectAudioDevice(found, saved)

\* The backend as setup_backend leaves it, for every configuration loaded.
InitBackend ==
    /\ InitPipeline
    /\ InitCapture(FALSE)
    /\ \E model_path \in {"None", "model"}, device \in {"None", "device"},
          file_exists \in BOOLEAN :
           InitSession(model_path, device, file_exists)
    /\ InitFunctions

NextSession ==
    \/ StartLoadInputs
    \/ StartDeriveAny
    \/ StartSpawnWorker
    \/ StartBuildAny
    \/ StartPlayAny
    \/ StartStoreStream
    \/ StartSendStarted
    \/ SelectAny
    \/ ModelFileChanges

SpecSession == InitBackend /\ [][NextSession]_vars

(***************************************************************************)
(* The tasks the handlers leave behind: the transcription worker loading   *)
(* its model on a blocking thread, and the model download spawned by       *)
(* handle_download_model_request.  They run beside the backend task.       *)
(***************************************************************************)
\* DownloadModelRequest is dispatched at most this many times.
MaxDownloads == 1

\* A download's body arrives in at most this many chunks.
MaxChunks == 1

\* cache_path.join(model_file_name)
save_path == "model"

\* state.config as the handlers read it.
Config == [selected_device_id |-> selected_device_id,
           active_model_path |-> state.active_model_path]

DownloadProgressUpdate ==
    [message |-> "DownloadProgressUpdate", notification_type |-> "", text |-> ""]

\* The worker stops when its model does not load.
WorkerAfterLoad(ok) == IF ok THEN "running" ELSE "panicked"

\* WhisperTranscriber::new(...).expect(...) on the worker's thread: the
\* worker enters its loop, or panics and is gone.  Nothing tells the handler
\* that spawned it.
WorkerLoadModel(w, ok) ==
    /\ w \in DOMAIN workers
    /\ workers[w] = "loading"
    /\ workers' = [workers EXCEPT ![w] = WorkerAfterLoad(ok)]
    /\ UNCHANGED <<state, model_file_exists, outbox, start, spawned_workers, streams>>
    /\ UNCHANGED <<selected_device_id, persisted, download>>
    /\ UNCHANGED pipeline_vars
    /\ UNCHANGED capture_vars
    /\ UNCHANGED function_vars

\* The workers that have not panicked.  The worker's loop has no exit, so
\* every other worker is alive.
RunningWorkers == {w \in DOMAIN workers : workers[w] /= "panicked"}

\* handle_download_model_request: the configuration is cloned, the model
\* file is created or truncated, and the download task is spawned with the
\* clone; the handler panics when the file cannot be created.
DownloadModelRequest(created) ==
    /\ start.pc = "idle"
    /\ download.pc \in {"idle", "saved", "failed", "panicked"}
    /\ download.requests < MaxDownloads
    /\ IF created
       THEN /\ download' = [pc |-> "spawned", requests |-> download.requests + 1,
                            chunks |-> 0, config |-> Config]
            /\ model_file_exists' = TRUE
            /\ UNCHANGED start
       ELSE /\ download' = [download EXCEPT !.requests = @ + 1]
            /\ start' = [start EXCEPT !.pc = "panicked", !.outcome = "panicked"]
            /\ UNCHANGED model_file_exists
    /\ UNCHANGED <<state, outbox, spawned_workers, streams>>
    /\ UNCHANGED <<workers, selected_device_id, persisted>>
    /\ UNCHANGED pipeline_vars
    /\ UNCHANGED capture_vars
    /\ UNCHANGED function_vars

\* request_client.execute(request): a response, or an error notification.
DownloadExecute(ok) ==
    /\ download.pc = "spawned"
    /\ IF ok
       THEN /\ download' = [download EXCEPT !.pc = "streaming"]
            /\ UNCHANGED outbox
       ELSE /\ download' = [download EXCEPT !.pc = "failed"]
            /\ outbox' = Append(outbox, NotificationMessage("Error", "download failed"))
    /\ UNCHANGED <<state, model_file_exists, start, spawned_workers, streams>>
    /\ UNCHANGED <<workers, selected_device_id, persisted>>
    /\ UNCHANGED pipeline_vars
    /\ UNCHANGED capture_vars
    /\ UNCHANGED function_vars

\* One chunk of the body: written to the file and reported, or the task
\* panics.
DownloadChunk(ok) ==
    /\ download.pc = "streaming"
    /\ download.chunks < MaxChunks
    /\ IF ok
       THEN /\ download' = [download EXCEPT !.chunks = @ + 1]
            /\ outbox' = Append(outbox, DownloadProgressUpdate)
       ELSE /\ download' = [download EXCEPT !.pc = "panicked"]
            /\ UNCHANGED outbox
    /\ UNCHANGED <<state, model_file_exists, start, spawned_workers, streams>>
    /\ UNCHANGED <<workers, selected_device_id, persisted>>
    /\ UNCHANGED pipeline_vars
    /\ UNCHANGED capture_vars
    /\ UNCHANGED function_vars

\* The configuration the task saves: the one it took with it, with the
\* model path set.
DownloadedConfig(config) == [config EXCEPT !.active_model_path = save_path]

\* The body has ended: config.active_model_path = Some(save_path) on the
\* task's own copy, and save_config(&config); the task panics when the save
\* fails.  The session state is not written.
DownloadSave(saved) ==
    /\ download.pc = "streaming"
    /\ download' = [download EXCEPT !.pc = IF saved THEN "saved" ELSE "panicked",
                                    !.config = DownloadedConfig(@)]
    /\ persisted' = IF saved THEN DownloadedConfig(download.config) ELSE persisted
    /\ UNCHANGED <<state, model_file_exists, outbox, start, spawned_workers, streams>>
    /\ UNCHANGED <<workers, selected_device_id>>
    /\ UNCHANGED pipeline_vars
    /\ UNCHANGED capture_vars
    /\ UNCHANGED function_vars

WorkerLoadAny == \E w \in DOMAIN workers, ok \in BOOLEAN : WorkerLoadModel(w, ok)

DownloadRequestAny == \E created \in BOOLEAN : DownloadModelRequest(created)

DownloadExecuteAny == \E ok \in BOOLEAN : DownloadExecute(ok)

DownloadChunkAny == \E ok \in BOOLEAN : DownloadChunk(ok)

DownloadSaveAny == \E saved \in BOOLEAN : DownloadSave(saved)

NextBackend ==
    \/ NextSession
    \/ WorkerLoadAny
    \/ DownloadRequestAny
    \/ DownloadExecuteAny
    \/ DownloadChunkAny
    \/ DownloadSaveAny

SpecBackend == InitBackend /\ [][NextBackend]_vars

(***************************************************************************)
(* Downmix: mix_stereo_to_mono, and the capture callback's use of it.      *)
(* Samples are integers whose sums are even, so that (l + r) * 0.5 is      *)
(* exact, as it is in f32 for such values.                                 *)
(***************************************************************************)
\* The device reports up to this many channels.
MaxChannels == 3

\* A buffer holds up to this many frames.
MaxFrames == 2

\* The downmix is called up to this many times.
MaxMixCalls == 2

MixSamples == {-2, 4}

StaleSamples == {0, 7}

MixFrameLeftOnly(samples_frame_data, i) == samples_frame_data[2 * i - 1]

\* (left_channel_sample + right_channel_sample) * half, for the i-th frame
\* counted from 1.
MixFrame(samples_frame_data, i) ==
    (samples_frame_data[2 * i - 1] + samples_frame_data[2 * i]) \div 2

\* The loop of mix_stereo_to_mono from frame i on: it panics at the first
\* index outside the accumulator slice, with the frames before it written.
RECURSIVE MixLoop(_, _, _, _)
MixLoop(samples_accumulator, samples_frame_data, i, frames) ==
    IF i > frames
    THEN [accumulator |-> samples_accumulator, frames |-> frames,
          panicked |-> FALSE]
    ELSE IF i > Len(samples_accumulator)
         THEN [accumulator |-> samples_accumulator, frames |-> frames,
               panicked |-> TRUE]
         ELSE MixLoop([samples_accumulator EXCEPT ![i] =
                           MixFrame(samples_frame_data, i)],
                      samples_frame_data, i + 1, frames)

mix_stereo_to_mono(samples_accumulator, samples_frame_data) ==
    MixLoop(samples_accumulator, samples_frame_data, 1,
            Len(samples_frame_data) \div 2)

\* Vec::resize(new_len, 0.0): truncates, or appends zeros.
Resize(vec, new_len) ==
    IF Len(vec) >= new_len
    THEN SubSeq(vec, 1, new_len)
    ELSE vec \o [i \in 1 .. (new_len - Len(vec)) |-> 0]

\* process_input from the length check on to the downmix: the accumulator
\* is resized to data.len() / channels frames and handed to
\* mix_stereo_to_mono with the whole buffer.
Downmix(samples_accumulator, data, channels) ==
    mix_stereo_to_mono(Resize(samples_accumulator, Len(data) \div channels),
                       data)

\* The buffers of the given length.
Buffers(len, samples) == [1 .. len -> samples]

\* The capture callback is called with a buffer of target_buffer_size *
\* channels samples, and downmixes it.
DownmixCallback(data) ==
    /\ mixer.calls < MaxMixCalls
    /\ ~mixer.panicked
    /\ Len(data) = mixer.target_buffer_size * mixer.channels
    /\ \E r \in {Downmix(mixer.accumulator, data, mixer.channels)} :
           mixer' = [mixer EXCEPT !.call = "downmix", !.calls = @ + 1,
                                  !.data = data, !.before = mixer.accumulator,
                                  !.accumulator = r.accumulator,
                                  !.frames = r.frames,
                                  !.panicked = r.panicked]
    /\ UNCHANGED <<resampler, sizing, caption, decoded>>
    /\ UNCHANGED pipeline_vars
    /\ UNCHANGED capture_vars
    /\ UNCHANGED session_vars

DownmixAny ==
    \E data \in Buffers(mixer.target_buffer_size * mixer.channels, MixSamples) :
        DownmixCallback(data)

\* The rest of the program while a function is driven on its own.
InitRest ==
    /\ InitPipeline
    /\ InitCapture(FALSE)
    /\ InitSession("None", "None", FALSE)

\* A stream of any channel count and buffer size, before its first callback.
InitDownmix ==
    /\ InitRest
    /\ mixer \in {[NoMix EXCEPT !.channels = c, !.target_buffer_size = n] :
                     c \in 1 .. MaxChannels, n \in 1 .. MaxFrames}
    /\ resampler = NoResampler
    /\ sizing = NoSizing
    /\ caption = NoCaption
    /\ decoded = NoDecoded

NextDownmix == DownmixAny

SpecDownmix == InitDownmix /\ [][NextDownmix]_vars

\* mix_stereo_to_mono(out, x) called with an even-length x and an
\* accumulator slice at least as long as the frames of x.
MixStereo(out, x) ==
    /\ mixer.call = "none"
    /\ Len(x) % 2 = 0
    /\ Len(out) >= Len(x) \div 2
    /\ \E r \in {mix_stereo_to_mono(out, x)} :
           mixer' = [mixer EXCEPT !.call = "mix", !.calls = @ + 1,
                                  !.data = x, !.before = out,
                                  !.accumulator = r.accumulator,
                                  !.frames = r.frames,
                                  !.panicked = r.panicked]
    /\ UNCHANGED <<resampler, sizing, caption, decoded>>
    /\ UNCHANGED pipeline_vars
    /\ UNCHANGED capture_vars
    /\ UNCHANGED session_vars

MixStereoAny ==
    \E n \in 0 .. MaxFrames, extra \in 0 .. 1 :
        \E x \in Buffers(2 * n, MixSamples),
           out \in Buffers(n + extra, StaleSamples) :
            MixStereo(out, x)

NextMixStereo == MixStereoAny

SpecMixStereo == Init /\ [][NextMixStereo]_vars

(***************************************************************************)
(* The resamplers driven on their own.  A resampler is followed by the     *)
(* lengths it handles: the samples given to it, the samples in its         *)
(* frames_queue, the samples its engine consumed and the samples handed to *)
(* the callback.  The engine is the one the capture callback's resampler   *)
(* has: it wants block_size frames per step and writes block_size *        *)
(* TARGET_RATE / original_rate frames per step.                            *)
(***************************************************************************)
\* A resampler is given samples until it was given this many.
MaxInputSamples == 2060

\* The fixed-block resampler is called up to this many times.
MaxFixedCalls == 12

\* The (original_rate, block_size) the resamplers are built for; the block
\* sizes are multiples of original_rate / gcd(original_rate, TARGET_RATE).
ResamplerSettings ==
    { [sample_rate |-> 48000, channels |-> 1, target_buffer_size |-> 300],
      [sample_rate |-> 32000, channels |-> 1, target_buffer_size |-> 1024] }

\* The lengths of the inputs of process_callback.
InputLens == {0, 1, 5, 6, 7, 13, 1023, 1024, 1025}

\* What process_callback can change, as it is in r.
ResamplerState(r) ==
    [queue |-> r.queue, consumed |-> r.consumed, written |-> r.written,
     callbacks |-> r.callbacks]

NoResult == [ok |-> TRUE, written |-> 0, expected |-> 0, actual |-> 0]

\* The fixed-block resampler without its length check: the engine is fed
\* whatever it was given.
fixed_block_process_callback_unchecked(r, input_len) ==
    LET output_written == OutputFrames(r.settings)
    IN  [r EXCEPT !.call = "ok", !.input_len = input_len,
                  !.consumed = @ + input_len,
                  !.written = @ + output_written,
                  !.callbacks = IF output_written > 0 THEN @ + 1 ELSE @,
                  !.result = [NoResult EXCEPT !.written = output_written],
                  !.before = ResamplerState(r)]

\* FixedBlockResampler::process_callback with an input of input_len samples.
fixed_block_process_callback(r, input_len) ==
    LET expected_len == InputFramesNext(r.settings)
        output_written == OutputFrames(r.settings)
    IN  IF input_len # expected_len
        THEN [r EXCEPT !.call = "err", !.input_len = input_len,
                            !.result = [ok |-> FALSE, written |-> 0,
                                   expected |-> expected_len,
                                   actual |-> input_len],
                       !.before = ResamplerState(r)]
        ELSE [r EXCEPT !.call = "ok", !.input_len = input_len,
                            !.consumed = @ + input_len,
                       !.written = @ + output_written,
                       !.callbacks = IF output_written > 0 THEN @ + 1 ELSE @,
                       !.result = [NoResult EXCEPT !.written = output_written],
                       !.before = ResamplerState(r)]

\* The loop of the streaming resampler cut after its first step.
StreamingLoopOnce(r, total_written) ==
    LET wanted_len == InputFramesNext(r.settings)
        output_written == OutputFrames(r.settings)
    IN  IF r.queue < wanted_len
        THEN [r EXCEPT !.result = [NoResult EXCEPT !.written = total_written]]
        ELSE [r EXCEPT !.queue = @ - wanted_len,
                       !.consumed = @ + wanted_len,
                       !.written = @ + output_written,
                       !.callbacks = IF output_written > 0 THEN @ + 1 ELSE @,
                       !.result = [NoResult EXCEPT !.written =
                                       total_written + output_written]]

\* The loop of StreamingResampler::process_callback: while the queue holds
\* wanted_len frames, they leave the queue, are resampled, and the output
\* is handed to the callback.
RECURSIVE StreamingLoop(_, _)
StreamingLoop(r, total_written) ==
    LET wanted_len == InputFramesNext(r.settings)
        output_written == OutputFrames(r.settings)
    IN  IF r.queue < wanted_len
        THEN [r EXCEPT !.result = [NoResult EXCEPT !.written = total_written]]
        ELSE StreamingLoop(
                 [r EXCEPT !.queue = @ - wanted_len,
                           !.consumed = @ + wanted_len,
                           !.written = @ + output_written,
                           !.callbacks = IF output_written > 0 THEN @ + 1 ELSE @],
                 IF output_written > 0 THEN total_written + output_written
                                       ELSE total_written)

\* StreamingResampler::process_callback with an input of input_len samples.
streaming_process_callback(r, input_len) ==
    StreamingLoop([r EXCEPT !.call = "ok", !.input_len = input_len,
                            !.received = @ + input_len,
                            !.queue = @ + input_len,
                            !.before = ResamplerState(r)], 0)

FixedBlockCall(input_len) ==
    /\ resampler.kind = "fixed"
    /\ resampler.calls < MaxFixedCalls
    /\ resampler' = [fixed_block_process_callback(resampler, input_len)
                         EXCEPT !.calls = @ + 1]
    /\ UNCHANGED <<mixer, sizing, caption, decoded>>
    /\ UNCHANGED pipeline_vars
    /\ UNCHANGED capture_vars
    /\ UNCHANGED session_vars

StreamingCall(input_len) ==
    /\ resampler.kind = "streaming"
    /\ resampler.received + input_len <= MaxInputSamples
    /\ resampler' = streaming_process_callback(resampler, input_len)
    /\ UNCHANGED <<mixer, sizing, caption, decoded>>
    /\ UNCHANGED pipeline_vars
    /\ UNCHANGED capture_vars
    /\ UNCHANGED session_vars

FixedBlockAny == \E input_len \in InputLens : FixedBlockCall(input_len)

StreamingAny == \E input_len \in InputLens : StreamingCall(input_len)

\* A resampler of the given kind, built for any of the settings.
InitResampler(kind) ==
    /\ InitRest
    /\ mixer = NoMix
    /\ resampler \in {NewResampler(kind, s) : s \in ResamplerSettings}
    /\ sizing = NoSizing
    /\ caption = NoCaption
    /\ decoded = NoDecoded

InitFixedBlock == InitResampler("fixed")

InitStreamingResampler == InitResampler("streaming")

NextFixedBlock == FixedBlockAny

NextStreaming == StreamingAny

SpecFixedBlock == InitFixedBlock /\ [][NextFixedBlock]_vars

SpecStreaming == InitStreamingResampler /\ [][NextStreaming]_vars

(***************************************************************************)
(* Buffer sizing: gcd, find_nearest_to and AudioDevice::target_buffer_size *)
(***************************************************************************)
\* The device reports every maximum buffer size up to this one, and the
\* sizes of DeviceBufferSizes.
MaxDeviceBuffer == 30

\* The sample rates a device's default input configuration names.
SampleRates == {8000, 11025, 16000, 22050, 24000, 32000, 44100, 48000, 88200,
                96000, 192000}

\* The maximum buffer sizes devices report, besides the small ones.
DeviceBufferSizes == {4095, 4096, 4097, 8000, 48000}

\* default_input_config.buffer_size(): a range with a maximum, or unknown.
SupportedBufferSizes ==
    {[kind |-> "Unknown", max |-> 0]}
        \cup {[kind |-> "Range", max |-> m] :
                 m \in (0 .. MaxDeviceBuffer) \cup DeviceBufferSizes}

\* The Euclidean loop: while b != 0 { temp = a % b; a = b; b = temp }
RECURSIVE gcd(_, _)
gcd(a, b) == IF b = 0 THEN a ELSE gcd(b, a % b)

find_nearest_below(base, denominator) == base - (base % denominator)

find_nearest_to(base, denominator) ==
    LET remainder == base % denominator
    IN  IF remainder * 2 <= denominator
        THEN base - remainder
        ELSE base - remainder + denominator

\* AudioDevice::target_buffer_size for a device whose default input
\* configuration has the given buffer size and sample rate.
target_buffer_size(buffer_size, original_sample_rate, target_rate) ==
    LET device_buffer_size ==
            IF buffer_size.kind = "Range" THEN buffer_size.max
                                          ELSE FIXED_FRAME_COUNT
        rate_denominator == gcd(original_sample_rate, target_rate)
    IN  [base |-> device_buffer_size,
         rate |-> original_sample_rate,
         gcd |-> rate_denominator,
         denominator |-> original_sample_rate \div rate_denominator,
         result |-> find_nearest_to(device_buffer_size,
                                    original_sample_rate \div rate_denominator)]

\* derive_audio_device_settings asks the device for its buffer size.
TargetBufferSize(buffer_size, original_sample_rate) ==
    /\ \E r \in {target_buffer_size(buffer_size, original_sample_rate,
                                    TARGET_RATE)} :
           sizing' = [call |-> "target_buffer_size", base |-> r.base,
                      rate |-> r.rate, gcd |-> r.gcd,
                      denominator |-> r.denominator, result |-> r.result]
    /\ UNCHANGED <<mixer, resampler, caption, decoded>>
    /\ UNCHANGED pipeline_vars
    /\ UNCHANGED capture_vars
    /\ UNCHANGED session_vars

TargetBufferSizeAny ==
    \E buffer_size \in SupportedBufferSizes, rate \in SampleRates :
        TargetBufferSize(buffer_size, rate)

NextSizing == TargetBufferSizeAny

SpecSizing == Init /\ [][NextSizing]_vars

(***************************************************************************)
(* The caption composer driven on its own                                  *)
(***************************************************************************)
\* History and active list hold up to this many segments each.
MaxComposeSegs == 2

\* The texts of the segments composed: plain, padded with whitespace, blank
\* and empty.
ComposeTexts == {<<"a">>, <<" ", "a", "\n">>, <<"b">>, <<" ">>, <<>>}

RECURSIVE ComposeLists(_)
ComposeLists(n) ==
    IF n = 0 THEN {<<>>}
    ELSE ComposeLists(n - 1)
             \cup {Append(l, Seg(0, 0, t)) :
                      l \in {k \in ComposeLists(n - 1) : Len(k) = n - 1},
                      t \in ComposeTexts}

\* compose_caption_text(history, active)
Compose(history, active) ==
    /\ ~caption.called
    /\ caption' = [called |-> TRUE, history |-> history, active |-> active,
                   text |-> compose_caption_text(history, active)]
    /\ UNCHANGED <<mixer, resampler, sizing, decoded>>
    /\ UNCHANGED pipeline_vars
    /\ UNCHANGED capture_vars
    /\ UNCHANGED session_vars

ComposeAny ==
    \E history \in ComposeLists(MaxComposeSegs),
       active \in ComposeLists(MaxComposeSegs) :
        Compose(history, active)

NextCompose == ComposeAny

SpecCompose == Init /\ [][NextCompose]_vars

(***************************************************************************)
(* A decode followed on its own: loud audio is accepted in chunks and      *)
(* try_transcribe is called with every engine result below, blank texts    *)
(* and reversed timestamps among them.                                     *)
(***************************************************************************)
\* The engine returns at most this many segments per decode followed.
MaxDecodeSegs == 2

\* Audio is accepted until this many samples were.
MaxDecodeTotal == 64000

DecodeSegPool ==
    { EngineSeg(0, 25, TextA),
      EngineSeg(25, 50, <<" ">> \o TextB),
      EngineSeg(10, 10, <<" ">>),
      EngineSeg(30, 20, TextC) }

DecodeResults ==
    {[ok |-> FALSE, segments |-> <<>>]}
    \cup {[ok |-> TRUE, segments |-> segs] :
            segs \in UNION {[1..n -> DecodeSegPool] : n \in 0..MaxDecodeSegs}}

AcceptLoud == AcceptSamples(8000, 100, MaxDecodeTotal)

\* transcriber.try_transcribe(params), with what it was called on and what
\* it returned kept.
Decode(engine) ==
    /\ phase = "idle"
    /\ \E r \in {try_transcribe(transcriber, engine)} :
           /\ transcriber' = r.t
           /\ decoded' = [call |-> r.engine, engine |-> engine,
                          segments |-> r.segments,
                          total_samples_seen |-> transcriber.total_samples_seen,
                          slice_len |-> WindowLen(TranscodeAudio(transcriber))]
    /\ UNCHANGED <<total_samples_seen, last_sent_text, sent, iter, accepted, decode>>
    /\ UNCHANGED stabilizer_vars
    /\ UNCHANGED capture_vars
    /\ UNCHANGED session_vars
    /\ UNCHANGED <<mixer, resampler, sizing, caption>>

DecodeAny == \E engine \in DecodeResults : Decode(engine)

NextDecode == AcceptLoud \/ DecodeAny

SpecDecode == Init /\ [][NextDecode]_vars

(***************************************************************************)
(* The worker fed with loud audio in long pulls, until the rolling window  *)
(* has slid: the worker's clock and the transcriber's.                     *)
(***************************************************************************)
\* The worker pulls loud audio until it has pulled this many samples.
MaxClockSamples == 64000

ClockPullLens == {8000, 16000}

WorkerPullLong ==
    \E len \in ClockPullLens, engine \in EngineResults :
        WorkerIterationUpTo(len, 100, engine, MaxClockSamples)

NextClock == WorkerPullLong

SpecClock == Init /\ [][NextClock]_vars

(***************************************************************************)
(* Properties of the stabilizer                                            *)
(***************************************************************************)
Count(seq, x) == Cardinality({i \in DOMAIN seq : seq[i] = x})

Called == phase = "returned"

\* The cutoff of the latest push, from the values of the call.
CallCutoff == push_call.now - 1500

\* All history emitted so far, the latest update's included.
Emitted == history_segments \o update.history

HistoryLenBefore(i) == IF i = 1 THEN 0 ELSE visits[i - 1].history_len

ActiveLenBefore(i) == IF i = 1 THEN 0 ELSE visits[i - 1].active_len

VisitAddedNothing(i) ==
    /\ visits[i].history_len = HistoryLenBefore(i)
    /\ visits[i].active_len = ActiveLenBefore(i)
    /\ visits[i].last_after = visits[i].last_before

\* C1: every segment of the returned update.history has end_ms <= cutoff and
\* every segment of update.active has end_ms > cutoff (cutoff = now_ms - tail_ms).
C1_PartitionByCutoff ==
    Called =>
        /\ \A i \in DOMAIN update.history : update.history[i].end <= CallCutoff
        /\ \A i \in DOMAIN update.active : update.active[i].end > CallCutoff

C1_Witness ==
    /\ Called
    /\ update.active /= <<>>
    /\ \E i \in DOMAIN update.history : update.history[i].end = CallCutoff

\* C2: last_final_end_ms starts at 0 and never decreases.
C2_LastFinalMonotone ==
    /\ last_final_end_ms = 0
    /\ [][last_final_end_ms' >= last_final_end_ms]_vars

C2_Witness ==
    /\ Called
    /\ push_call.last_before > 0
    /\ last_final_end_ms > push_call.last_before

\* C3: the emitted history segments, in emission order, have non-decreasing end_ms.
C3_HistoryEndNonDecreasing ==
    \A i, j \in DOMAIN Emitted : i < j => Emitted[i].end <= Emitted[j].end

C3_Witness ==
    /\ Called
    /\ history_segments /= <<>>
    /\ update.history /= <<>>

\* C4: consecutively emitted history segments a, b satisfy
\* b.start_ms >= a.start_ms and b.start_ms >= a.end_ms - 80.
C4_HistoryOrderedNonOverlapping ==
    \A i \in DOMAIN Emitted :
        i > 1 =>
            /\ Emitted[i].start >= Emitted[i - 1].start
            /\ Emitted[i].start >= Emitted[i - 1].end - 80

\* C5: a visited segment with end_ms <= cutoff and end_ms <= last_final_end_ms + 80
\* (as of its visit) is added to neither list and leaves last_final_end_ms
\* unchanged; an end_ms 1040 after a finalized end_ms 1000 adds no history
\* entry, and {400,500} after the finalized {0,500} is not appended.
C5_DuplicateSkipped ==
    Called =>
        /\ \A i \in DOMAIN visits :
              (/\ visits[i].seg.end <= CallCutoff
               /\ visits[i].seg.end <= visits[i].last_before + 80)
              => VisitAddedNothing(i)
        /\ \A s \in Range(push_call.segments) :
              (/\ push_call.last_before = 1000
               /\ s.end = 1040
               /\ s.end <= CallCutoff)
              => s \notin Range(update.history) \cup Range(update.active)
        /\ (/\ SegA \in Range(history_segments)
            /\ push_call.now = 3000)
           => SegDup \notin Range(update.history) \cup Range(update.active)

C5_Witness ==
    /\ Called
    /\ history_segments = <<SegB>>
    /\ push_call.now = 3000
    /\ push_call.segments = <<SegLate>>
    /\ update.history = <<>>
    /\ last_final_end_ms = 1000

\* A text that, once trimmed, begins with '[' and ends with ']'.
IsBracketTaggedTrimmed(text) ==
    LET t == Trim(text) IN t /= <<>> /\ t[1] = "[" /\ t[Len(t)] = "]"

\* C6: a segment whose trimmed text begins with '[' and ends with ']' never
\* appears in update.history or update.active and never changes
\* last_final_end_ms.
C6_TrimmedBracketDropped ==
    Called =>
        /\ \A s \in Range(update.history) \cup Range(update.active) :
              ~IsBracketTaggedTrimmed(s.text)
        /\ \A i \in DOMAIN visits :
              IsBracketTaggedTrimmed(visits[i].seg.text) => VisitAddedNothing(i)

\* C7: a segment whose text is exactly "[BLANK_AUDIO]" never appears in
\* history or active, and visiting it never changes last_final_end_ms.
C7_BlankAudioDropped ==
    Called =>
        /\ \A s \in Range(update.history) \cup Range(update.active) :
              s.text /= TextBlankAudio
        /\ \A i \in DOMAIN visits :
              visits[i].seg.text = TextBlankAudio => VisitAddedNothing(i)

C7_Witness ==
    /\ Called
    /\ push_call.last_before = 0
    /\ push_call.now = 3000
    /\ SegBlank \in Range(push_call.segments)

VisitRaisedHistory(i) == visits[i].history_len = HistoryLenBefore(i) + 1

VisitRaisedActive(i) == visits[i].active_len = ActiveLenBefore(i) + 1

\* The segments whose visit appended to history (to active), in visit order.
RECURSIVE VisitedIntoHistory(_)
VisitedIntoHistory(i) ==
    IF i > Len(visits) THEN <<>>
    ELSE (IF VisitRaisedHistory(i) THEN <<visits[i].seg>> ELSE <<>>)
         \o VisitedIntoHistory(i + 1)

RECURSIVE VisitedIntoActive(_)
VisitedIntoActive(i) ==
    IF i > Len(visits) THEN <<>>
    ELSE (IF VisitRaisedActive(i) THEN <<visits[i].seg>> ELSE <<>>)
         \o VisitedIntoActive(i + 1)

VisitSkippable(i) ==
    \/ (visits[i].seg.text /= <<>> /\ visits[i].seg.text[1] = "["
        /\ visits[i].seg.text[Len(visits[i].seg.text)] = "]")
    \/ (/\ visits[i].seg.end <= CallCutoff
        /\ visits[i].seg.end <= visits[i].last_before + 80)

\* push neither invents, duplicates nor reorders: the segments are visited in
\* ascending (start_ms, end_ms) order, the visits are a rearrangement of the
\* input, history and active are the visited segments that were appended to
\* each, no visit appends to both, and every segment that is neither
\* bracket-tagged nor a duplicate is appended to exactly one.
C8_SubListsOfSortedInput ==
    Called =>
        /\ Len(visits) = Len(push_call.segments)
        /\ \A s \in Range(push_call.segments) \cup {visits[i].seg : i \in DOMAIN visits} :
              Count(push_call.segments, s) = Count([i \in DOMAIN visits |-> visits[i].seg], s)
        /\ \A i, j \in DOMAIN visits :
              i < j =>
                  \/ visits[i].seg.start < visits[j].seg.start
                  \/ (/\ visits[i].seg.start = visits[j].seg.start
                      /\ visits[i].seg.end <= visits[j].seg.end)
        /\ update.history = VisitedIntoHistory(1)
        /\ update.active = VisitedIntoActive(1)
        /\ \A i \in DOMAIN visits :
              /\ visits[i].history_len - HistoryLenBefore(i) \in {0, 1}
              /\ visits[i].active_len - ActiveLenBefore(i) \in {0, 1}
              /\ ~(VisitRaisedHistory(i) /\ VisitRaisedActive(i))
              /\ ~VisitSkippable(i) => (VisitRaisedHistory(i) \/ VisitRaisedActive(i))

S5Call ==
    /\ Called
    /\ push_call.last_before = 0
    /\ push_call.now = 2000
    /\ push_call.segments = <<SegA, SegB, SegC>>

\* C8 as stated: the sub-list property, and push(2000, [a, b, c]) on a fresh
\* stabilizer returns history = [a, b], active = [c].
C8_Original ==
    /\ C8_SubListsOfSortedInput
    /\ S5Call => (update.history = <<SegA, SegB>> /\ update.active = <<SegC>>)

\* C8 (amended): the sub-list property, and push(2000, [a, b, c]) on a fresh
\* stabilizer returns history = [a], active = [b, c].
C8_Amended ==
    /\ C8_SubListsOfSortedInput
    /\ S5Call => (update.history = <<SegA>> /\ update.active = <<SegB, SegC>>)

C8_Witness == S5Call /\ update.history = <<SegA>> /\ update.active = <<SegB, SegC>>


(***************************************************************************)
(* Properties of the transcription worker                                  *)
(***************************************************************************)
\* now_ms of the iteration that left the worker's counter at total.
NowMsAt(total) == (total * 1000) \div 16000

\* The segments appended to the worker's history by the step.
HistoryAppended == SubSeq(history_segments', Len(history_segments) + 1, Len(history_segments'))

HistoryOnlyGrows ==
    /\ Len(history_segments') >= Len(history_segments)
    /\ SubSeq(history_segments', 1, Len(history_segments)) = history_segments

\* C9 as stated: a segment held as active does not remain active once
\* end_ms <= now_ms - tail_ms, and it leaves active only by entering history.
C9_ActivePromotedNeverLost ==
    [][ /\ \A s \in Range(active_segments') :
              s.end > NowMsAt(total_samples_seen') - 1500
        /\ \A s \in Range(active_segments) :
              s \notin Range(active_segments') => s \in Range(history_segments')
      ]_vars

\* C9 (amended): a segment held as active enters history in an iteration
\* exactly when that iteration's decode returns it again with
\* end_ms <= now_ms - tail_ms and end_ms > last_final_end_ms + 80; otherwise it
\* stays active while the update is empty, and with a non-empty update it
\* stays only if the decode returned it again with end_ms > now_ms - tail_ms.
C9_PromotedOnlyWhenReturnedAgain ==
    [][ total_samples_seen' /= total_samples_seen =>
          /\ HistoryOnlyGrows
          /\ \A s \in Range(active_segments) :
                /\ s \in Range(HistoryAppended) <=>
                       \E i \in DOMAIN visits' :
                           /\ visits'[i].seg = s
                           /\ s.end <= NowMsAt(total_samples_seen') - 1500
                           /\ s.end > visits'[i].last_before + 80
                /\ s \notin Range(HistoryAppended) =>
                      (s \in Range(active_segments') <=>
                           \/ (update'.history = <<>> /\ update'.active = <<>>)
                           \/ (/\ s \in Range(push_call'.segments)
                               /\ s.end > NowMsAt(total_samples_seen') - 1500))
      ]_vars

C9_Witness ==
    /\ iter.promoted /= {}
    /\ iter.promoted \subseteq Range(history_segments)

\* C10: no TranscriptionStateUpdate carries an empty composed text, and no two
\* consecutive ones carry the same composed text.
C10_NoEmptyNoRepeatedText ==
    \A i \in DOMAIN sent :
        /\ sent[i].new_segment_text /= <<>>
        /\ i > 1 => sent[i].new_segment_text /= sent[i - 1].new_segment_text

C10_Witness ==
    /\ iter.reached = "suppressed"
    /\ iter.caption = last_sent_text
    /\ Len(sent) >= 2

(***************************************************************************)
(* Properties of the decoder adapter's scheduling                          *)
(***************************************************************************)
EngineInvoked(outcome) == outcome \in {"ok", "failed"}

\* C11: when every sample the worker pulls is 0.0, whatever the lengths of
\* the pulls, no TranscriptionStateUpdate is sent and no iteration invokes
\* the inference engine: the window's RMS is 0 and the decode is gated.
C11_SilenceNeverDecodes ==
    /\ sent = <<>>
    /\ ~EngineInvoked(iter.engine)
    /\ history_segments = <<>> /\ active_segments = <<>>

\* Three seconds of zeros were pulled and the latest decode attempt got past
\* the fast exit and was stopped by the silence gate.
C11_Witness ==
    /\ total_samples_seen >= 3 * TARGET_RATE
    /\ iter.engine = "gated"
    /\ SumOfSquares(transcriber.segment_window) = 0
    /\ WindowLen(transcriber.segment_window) = length_samples

\* C12: between two consecutive invocations of the inference engine by
\* try_transcribe, at least repeat_samples (8000) samples were passed to
\* accept_samples, whatever the earlier invocation returned (segments, no
\* segment, or a failure).
C12_RepeatGapBetweenInvocations ==
    (EngineInvoked(decode.call) /\ decode.prev /= "none")
        => decode.gap >= repeat_run_samples

(***************************************************************************)
(* Properties of the rolling window                                        *)
(***************************************************************************)
\* The k newest samples of a run-length encoded sample list, oldest first,
\* collected from the newest run backwards.
RECURSIVE NewestSamples(_, _)
NewestSamples(w, k) ==
    IF k = 0 \/ w = <<>> THEN <<>>
    ELSE LET last == w[Len(w)]
         IN  IF last.n >= k THEN <<[n |-> k, v |-> last.v]>>
             ELSE Append(NewestSamples(SubSeq(w, 1, Len(w) - 1), k - last.n), last)

\* C13: after every accept_samples call the rolling window is no longer than
\* context_samples (48000) and holds exactly the newest
\* min(total_samples_seen, context_samples) accepted samples, oldest first.
C13_WindowIsNewestSamples ==
    /\ WindowLen(transcriber.segment_window) <= length_samples
    /\ transcriber.total_samples_seen = WindowLen(accepted)
    /\ transcriber.segment_window =
           NewestSamples(accepted, Min(transcriber.total_samples_seen, length_samples))

\* The window has slid: more than context_samples were accepted, the oldest
\* run was cut and the window holds samples of both values.
C13_Witness ==
    /\ transcriber.total_samples_seen > length_samples
    /\ WindowLen(transcriber.segment_window) = length_samples
    /\ Len(transcriber.segment_window) >= 3
    /\ accepted[1].n > transcriber.segment_window[1].n
    /\ accepted[1].v = transcriber.segment_window[1].v

(***************************************************************************)
(* Properties of the handoff buffer                                        *)
(***************************************************************************)
\* The runs list samples 1 .. count in increasing order, none twice.
InEmissionOrder(runs, count) ==
    /\ \A i \in DOMAIN runs : 1 <= runs[i].lo /\ runs[i].lo <= runs[i].hi
                                /\ runs[i].hi <= count
    /\ \A i \in DOMAIN runs : i > 1 => runs[i - 1].hi < runs[i].lo

\* The runs list the samples 1 .. k for some k, nothing after a gap.
IsPrefixOfEmission(runs) ==
    runs = <<>> \/ (Len(runs) = 1 /\ runs[1].lo = 1)

\* C14: under every interleaving of callback pushes and worker pops, the
\* samples the worker has popped are, in the order popped, a subsequence of
\* the samples the resampler emitted (nothing reordered, nothing twice), and
\* a prefix of them as long as no push found too little room.
C14_PoppedInCaptureOrder ==
    /\ InEmissionOrder(popped, emitted)
    /\ InEmissionOrder(popped \o ring, emitted)
    /\ ~capture.found_full => IsPrefixOfEmission(popped)

\* A push lost samples, and the worker has popped samples from both sides of
\* the gap.
C14_Witness ==
    /\ capture.found_full
    /\ Len(popped) >= 2
    /\ worker_loop.last_pop > 0

\* C15: the capture callback never waits for room in the handoff buffer: a
\* push that finds fewer free slots than samples stores the samples that fit
\* and loses the rest, the callback returns, and the buffer never holds more
\* than its capacity of 3 * 16000 = 48000 samples.
C15_PushStoresWhatFits ==
    /\ Occupancy(ring) <= 3 * 16000
    /\ capture.offered > capture.free_before => capture.stored = capture.free_before
    /\ capture.offered <= capture.free_before => capture.stored = capture.offered

\* The latest callback found room for a part of its block only: the part was
\* stored, the buffer is full, the callback has returned.
C15_Witness ==
    /\ capture.callbacks > 0
    /\ capture.offered > capture.free_before
    /\ capture.free_before > 0
    /\ capture.stored = capture.free_before
    /\ Occupancy(ring) = RingCapacity

\* C16: the worker loop does not spin: while the handoff buffer is empty and
\* the producer is open, the worker stays inside the pop and completes no
\* loop iteration.
C16_WorkerWaitsWhileEmpty ==
    [][(ring = <<>> /\ producer_open) => worker_loop' = worker_loop]_vars

\* C17: once the capture stream is dropped and the producer end closed, the
\* worker drains what is buffered and its loop ends: the worker thread
\* eventually exits.
C17_WorkerExitsAfterClose ==
    (~producer_open) ~> (ring = <<>> /\ worker_loop.pc = "exited")

(***************************************************************************)
(* Properties of the capture callback                                      *)
(***************************************************************************)
\* C20: a callback handed a buffer whose length is not B * C returns with the
\* accumulator, the resampler's queue and the handoff buffer as they were,
\* and a buffer of the right length is processed as usual whatever came
\* before it: one block is resampled and pushed.
C20_WrongLengthChangesNothing ==
    [][capture'.callbacks = capture.callbacks + 1 =>
         IF capture'.data_len /= DeviceSettings.target_buffer_size * DeviceSettings.channels
         THEN UNCHANGED <<callback_state, ring, emitted>>
         ELSE /\ callback_state' =
                   [samples_accumulator |-> DeviceSettings.target_buffer_size,
                    frames_queue |-> 0]
              /\ emitted' = emitted + OutputFrames(DeviceSettings)
              /\ Occupancy(ring') =
                   Min(RingCapacity, Occupancy(ring) + OutputFrames(DeviceSettings))]_vars

\* A buffer of the right length was processed right after one of a wrong
\* length was refused.
C20_Witness ==
    /\ capture.callbacks >= 2
    /\ capture.prev_data_len /= ExpectedSamples(DeviceSettings)
    /\ capture.data_len = ExpectedSamples(DeviceSettings)
    /\ capture.stored = OutputFrames(DeviceSettings)
    /\ callback_state.frames_queue = 0

(***************************************************************************)
(* Properties of the session start                                         *)
(***************************************************************************)
\* A precondition of the start does not hold.
PreconditionFailed ==
    \/ state.active_model_path = "None"
    \/ ~model_file_exists
    \/ state.active_audio_device = "None"

StartDispatched == start'.requests = start.requests + 1

IsStarted(m) == m.message = "TranscriptionStartedResponse"

\* C18: a StartTranscription whose precondition fails (no model path, no
\* model file, or no device selected) sends exactly one Notification of type
\* Error and nothing else, spawns no worker, builds no stream and leaves the
\* session state, active_stream included, as it was; the handler has returned.
C18_FailedStartOnlyNotifies ==
    [][(StartDispatched /\ PreconditionFailed) =>
          /\ Len(outbox') = Len(outbox) + 1
          /\ SubSeq(outbox', 1, Len(outbox)) = outbox
          /\ outbox'[Len(outbox')].message = "NotificationMessage"
          /\ outbox'[Len(outbox')].notification_type = "Error"
          /\ start'.pc = "idle" /\ ~start'.worker /\ start'.stream = 0
          /\ UNCHANGED <<state, spawned_workers, streams, producer_open, ring>>]_vars

\* A start was refused for its model file while a session started earlier
\* is active: the error was sent and the active stream is still there.
C18_Witness ==
    /\ start.outcome = "rejected"
    /\ state.active_stream /= 0
    /\ streams[state.active_stream] = "playing"
    /\ outbox[Len(outbox)] =
           NotificationMessage("Error", "the downloaded model is damaged")
    /\ \E i \in DOMAIN outbox : IsStarted(outbox[i])

\* C19: TranscriptionStarted is the last step of a successful start: it is
\* sent only once the worker of this start is spawned and its stream is
\* playing and stored in the session state, and whenever it has been sent
\* the session state holds an active stream.
C19_StartedIsLastStep ==
    /\ []((\E i \in DOMAIN outbox : IsStarted(outbox[i])) => state.active_stream /= 0)
    /\ [][(Len(outbox') = Len(outbox) + 1 /\ IsStarted(outbox'[Len(outbox')])) =>
            /\ start.worker /\ spawned_workers >= 1
            /\ start.stream /= 0
            /\ streams[start.stream] = "playing"
            /\ state.active_stream = start.stream
            /\ start'.pc = "idle"
            /\ UNCHANGED <<state, spawned_workers, streams>>]_vars

\* A start has run to its end: the response is the last message sent, the
\* worker is spawned and the stream of this start is playing and stored.
C19_Witness ==
    /\ start.outcome = "started"
    /\ outbox /= <<>> /\ IsStarted(outbox[Len(outbox)])
    /\ spawned_workers >= 1
    /\ state.active_stream = start.stream
    /\ streams[state.active_stream] = "playing"

(***************************************************************************)
(* Properties of the downmix                                               *)
(***************************************************************************)
RECURSIVE SumSeq(_)
SumSeq(seq) == IF seq = <<>> THEN 0 ELSE Head(seq) + SumSeq(Tail(seq))

\* The channels of the i-th frame, counted from 1, of an interleaved buffer.
FrameOf(data, channels, i) == SubSeq(data, (i - 1) * channels + 1, i * channels)

\* C21: for every channel count C >= 1 and every buffer of N * C interleaved
\* samples, the capture callback's downmix completes without an out-of-range
\* index and leaves an accumulator of exactly N samples, the i-th of which
\* is the average of the C channels of frame i.
C21_DownmixAveragesChannels ==
    mixer.call = "downmix" =>
        /\ ~mixer.panicked
        /\ Len(mixer.accumulator) = mixer.target_buffer_size
        /\ \A i \in 1 .. Len(mixer.accumulator) :
               mixer.accumulator[i] * mixer.channels =
                   SumSeq(FrameOf(mixer.data, mixer.channels, i))

\* C22: for every even-length stereo input x of 2N samples,
\* mix_stereo_to_mono writes out[i] = (x[2i] + x[2i+1]) / 2 for all i < N,
\* returns N, leaves out beyond the first N samples as it was, and gives
\* the same output when called again with the same input.
C22_MixStereoAverages ==
    mixer.call = "mix" =>
        /\ ~mixer.panicked
        /\ mixer.frames * 2 = Len(mixer.data)
        /\ Len(mixer.accumulator) = Len(mixer.before)
        /\ \A i \in 1 .. Len(mixer.accumulator) :
               IF i <= mixer.frames
               THEN mixer.accumulator[i] * 2 =
                        mixer.data[2 * i - 1] + mixer.data[2 * i]
               ELSE mixer.accumulator[i] = mixer.before[i]
        /\ mix_stereo_to_mono(mixer.accumulator, mixer.data) =
               [accumulator |-> mixer.accumulator, frames |-> mixer.frames,
                panicked |-> FALSE]

\* A stereo buffer of two frames with different channels was mixed into a
\* longer accumulator.
C22_Witness ==
    /\ mixer.call = "mix"
    /\ mixer.frames = 2
    /\ Len(mixer.accumulator) = 3
    /\ mixer.data[1] # mixer.data[2]
    /\ mixer.accumulator[3] = 7

(***************************************************************************)
(* Properties of the resamplers                                            *)
(***************************************************************************)
\* floor(n * out_rate / in_rate) for the rates of the resampler.
ExpectedOutput(r, n) == (n * TARGET_RATE) \div r.settings.sample_rate

\* C23, as stated: for any total of N input samples delivered to the
\* streaming resampler in any pattern of calls, the total number of output
\* samples emitted through the callback is within 1 of
\* floor(N * out_rate / in_rate).
C23_OutputWithinOneOfRatio ==
    resampler.kind = "streaming" =>
        /\ resampler.written <= ExpectedOutput(resampler, resampler.received) + 1
        /\ resampler.written >= ExpectedOutput(resampler, resampler.received) - 1

\* C23, amended: the streaming resampler emits whole blocks only.  After N
\* input samples in any pattern of calls it has emitted floor(N / B) blocks
\* of B * out_rate / in_rate samples, B being the block the engine wants,
\* and the N mod B newest samples wait in its queue: the total never
\* exceeds floor(N * out_rate / in_rate) and is short of it by less than
\* one output block.
C23_OutputIsWholeBlocks ==
    resampler.kind = "streaming" =>
        /\ resampler.queue = resampler.received % InputFramesNext(resampler.settings)
        /\ resampler.written =
               (resampler.received \div InputFramesNext(resampler.settings))
                   * OutputFrames(resampler.settings)
        /\ resampler.written <= ExpectedOutput(resampler, resampler.received)
        /\ ExpectedOutput(resampler, resampler.received) - resampler.written
               < OutputFrames(resampler.settings)

\* The latest call found samples queued, emitted several blocks and left
\* samples queued.
C23_Witness ==
    /\ resampler.kind = "streaming"
    /\ resampler.callbacks >= resampler.before.callbacks + 2
    /\ resampler.queue > 0
    /\ resampler.before.queue > 0

\* C24: a fixed-block resampler built with block size B rejects every call
\* whose input length differs from B with InvalidInputLength{expected: B,
\* actual: len}, without invoking the callback and without changing the
\* resampler's state; a call with exactly B samples invokes the callback
\* exactly once.
C24_FixedBlockRejectsOtherLengths ==
    (resampler.kind = "fixed" /\ resampler.call # "none") =>
        IF resampler.input_len # resampler.settings.target_buffer_size
        THEN /\ resampler.call = "err"
             /\ resampler.result.expected = resampler.settings.target_buffer_size
             /\ resampler.result.actual = resampler.input_len
             /\ ResamplerState(resampler) = resampler.before
        ELSE /\ resampler.call = "ok"
             /\ resampler.callbacks = resampler.before.callbacks + 1

\* A resampler of block size 1024 that has resampled a block rejected 1023
\* samples.
C24_Witness ==
    /\ resampler.kind = "fixed"
    /\ resampler.settings.target_buffer_size = 1024
    /\ resampler.call = "err"
    /\ resampler.input_len = 1023
    /\ resampler.callbacks > 0

(***************************************************************************)
(* Properties of the buffer sizing                                         *)
(***************************************************************************)
Abs(n) == IF n < 0 THEN -n ELSE n

\* g is the greatest common divisor of a and b, both positive.
IsGreatestCommonDivisor(g, a, b) ==
    /\ g >= 1
    /\ a % g = 0
    /\ b % g = 0
    /\ \A k \in 2 .. (b \div g) : ~((a \div g) % k = 0 /\ (b \div g) % k = 0)

\* C25: target_buffer_size returns B = the multiple of
\* d = R / gcd(R, 16000) nearest to M (M = device maximum, or 4096 when
\* unknown), gcd being the true greatest common divisor: B mod d = 0 and
\* |B - M| <= d / 2; gcd(48000, 16000) = 16000, gcd(44100, 16000) = 100,
\* nearest(48000, 3) = 48000, nearest(4097, 3) = 4098,
\* nearest(4096, 3) = 4095, and M = 8000, R = 44100 gives 7938.
C25_NearestMultipleOfRateDenominator ==
    sizing.call = "target_buffer_size" =>
        /\ IsGreatestCommonDivisor(sizing.gcd, sizing.rate, TARGET_RATE)
        /\ sizing.denominator * sizing.gcd = sizing.rate
        /\ sizing.result % sizing.denominator = 0
        /\ Abs(sizing.result - sizing.base) * 2 <= sizing.denominator
        /\ sizing.rate = 48000 => (sizing.gcd = 16000 /\ sizing.denominator = 3)
        /\ sizing.rate = 44100 => sizing.gcd = 100
        /\ (sizing.rate = 48000 /\ sizing.base = 48000) => sizing.result = 48000
        /\ (sizing.rate = 48000 /\ sizing.base = 4097) => sizing.result = 4098
        /\ (sizing.rate = 48000 /\ sizing.base = 4096) => sizing.result = 4095
        /\ (sizing.rate = 44100 /\ sizing.base = 8000) => sizing.result = 7938

\* A device of 44100 Hz with a maximum of 8000 frames was sized, downwards.
C25_Witness ==
    /\ sizing.call = "target_buffer_size"
    /\ sizing.rate = 44100
    /\ sizing.base = 8000
    /\ sizing.result < sizing.base

\* C26: when base lies exactly halfway between two multiples of the
\* denominator (remainder * 2 = denominator), find_nearest_to returns the
\* larger multiple, base - remainder + denominator.
C26_TieRoundsUp ==
    (/\ sizing.call = "target_buffer_size"
     /\ (sizing.base % sizing.denominator) * 2 = sizing.denominator) =>
        sizing.result =
            sizing.base - (sizing.base % sizing.denominator) + sizing.denominator

(***************************************************************************)
(* Properties of the caption composer                                      *)
(***************************************************************************)
\* The text without its leading and trailing whitespace, by the positions
\* of its first and last other character.
Stripped(t) ==
    LET inked == {i \in DOMAIN t : ~IsWhitespace(t[i])}
    IN  IF inked = {} THEN <<>>
        ELSE SubSeq(t, CHOOSE i \in inked : \A j \in inked : i <= j,
                       CHOOSE i \in inked : \A j \in inked : j <= i)

IsBlank(t) == \A i \in DOMAIN t : IsWhitespace(t[i])

\* The stripped texts of the segments that are not blank, each but the
\* last followed by one space, in order.
RECURSIVE SpacedTexts(_)
SpacedTexts(segments) ==
    IF segments = <<>> THEN <<>>
    ELSE LET rest == SpacedTexts(Tail(segments))
             text == Stripped(Head(segments).text)
         IN  IF IsBlank(Head(segments).text) THEN rest
             ELSE IF rest = <<>> THEN text
             ELSE text \o <<" ">> \o rest

\* The segments with whitespace put around the text of the i-th.
Padded(segments, i) ==
    [segments EXCEPT ![i].text = <<" ", "\t">> \o @ \o <<"\n">>]

\* The segments with a segment of blank text put in before the i-th.
WithBlank(segments, i) ==
    SubSeq(segments, 1, i - 1) \o <<Seg(0, 0, <<" ">>)>>
        \o SubSeq(segments, i, Len(segments))

\* C27: compose_caption_text(H, A) is the single-space join of the trimmed,
\* non-empty texts of H followed by those of A, in order; it is empty
\* exactly when no segment has non-blank text; whitespace added around any
\* segment's text, or a segment of blank text put in anywhere, does not
\* change it; and compose(H, A) = compose(H ++ A, []).
C27_ComposeJoinsTrimmedTexts ==
    caption.called =>
        /\ caption.text = SpacedTexts(caption.history \o caption.active)
        /\ caption.text = <<>> <=>
               \A i \in DOMAIN (caption.history \o caption.active) :
                   IsBlank((caption.history \o caption.active)[i].text)
        /\ \A i \in DOMAIN caption.history :
               compose_caption_text(Padded(caption.history, i), caption.active)
                   = caption.text
        /\ \A i \in DOMAIN caption.active :
               compose_caption_text(caption.history, Padded(caption.active, i))
                   = caption.text
        /\ \A i \in 1 .. Len(caption.history) + 1 :
               compose_caption_text(WithBlank(caption.history, i), caption.active)
                   = caption.text
        /\ \A i \in 1 .. Len(caption.active) + 1 :
               compose_caption_text(caption.history, WithBlank(caption.active, i))
                   = caption.text
        /\ compose_caption_text(caption.history \o caption.active, <<>>)
               = caption.text

\* A history of a padded and a blank text was composed with an active list
\* of a plain and an empty one.
C27_Witness ==
    /\ caption.called
    /\ Len(caption.history) = 2
    /\ caption.history[1].text = <<" ", "a", "\n">>
    /\ caption.history[2].text = <<" ">>
    /\ Len(caption.active) = 2
    /\ caption.active[1].text = <<>>
    /\ caption.active[2].text = <<"b">>
    /\ caption.text = <<"a", " ", "b">>

(***************************************************************************)
(* Properties of the device selection                                      *)
(***************************************************************************)
\* C28: if persisting the config fails while SelectAudioDevice is handled,
\* the failure is surfaced as a Notification of type Error and the backend
\* keeps dispatching the bridge messages that follow: the handler is back
\* at the dispatch loop, with an Error notification as the latest message
\* sent.
C28_SaveFailureIsNotified ==
    start.outcome = "panicked" =>
        /\ start.pc = "idle"
        /\ outbox # <<>>
        /\ outbox[Len(outbox)].message = "NotificationMessage"
        /\ outbox[Len(outbox)].notification_type = "Error"

(***************************************************************************)
(* Properties of the gates of try_transcribe                               *)
(***************************************************************************)
\* The slice try_transcribe would measure has an RMS of 0 or of at most
\* -60 dB: with samples in thousandths, a mean square of at most 1.
SliceIsQuiet(t) ==
    LET window == t.segment_window
        len == IF WindowLen(window) >= min_transcode_samples
               THEN WindowLen(window) ELSE min_transcode_samples
    IN  SumOfSquares(window) <= len

\* C29: when try_transcribe passes the fast exit and the slice has RMS == 0
\* or at most -60 dB, it returns no segments without invoking the inference
\* engine, whatever the engine would return, and resets since_last_decode
\* to 0, leaving the rolling window and total_samples_seen unchanged.
C29_SilenceGateResetsCounter ==
    (transcriber.since_last_decode >= repeat_run_samples /\ SliceIsQuiet(transcriber)) =>
        \A engine \in EngineResults :
            LET r == try_transcribe(transcriber, engine)
            IN  /\ r.segments = <<>>
                /\ r.engine = "gated"
                /\ r.t.since_last_decode = 0
                /\ r.t.segment_window = transcriber.segment_window
                /\ r.t.total_samples_seen = transcriber.total_samples_seen

\* The latest try_transcribe was stopped by the gate over a window that is
\* quiet but not all zeros, and the counter is back at 0.
C29_Witness ==
    /\ decode.call = "gated"
    /\ transcriber.since_last_decode = 0
    /\ SumOfSquares(transcriber.segment_window) > 0
    /\ transcriber.total_samples_seen >= repeat_run_samples

\* C30: when since_last_decode < repeat_samples, try_transcribe returns no
\* segments, does not invoke the inference engine, and leaves
\* since_last_decode, the rolling window, the scratch buffer and
\* total_samples_seen unchanged.
C30_FastExitChangesNothing ==
    transcriber.since_last_decode < repeat_run_samples =>
        \A engine \in EngineResults :
            LET r == try_transcribe(transcriber, engine)
            IN  /\ r.segments = <<>>
                /\ r.engine = "skipped"
                /\ r.t.since_last_decode = transcriber.since_last_decode
                /\ r.t.segment_window = transcriber.segment_window
                /\ r.t.scratch_buffer = transcriber.scratch_buffer
                /\ r.t.total_samples_seen = transcriber.total_samples_seen

\* The latest try_transcribe took the fast exit with samples waiting that
\* were accepted after an engine invocation.
C30_Witness ==
    /\ decode.call = "skipped"
    /\ transcriber.since_last_decode > 0
    /\ transcriber.since_last_decode < repeat_run_samples
    /\ decode.last # "none"
    /\ transcriber.segment_window # <<>>

(***************************************************************************)
(* Properties of the segments try_transcribe returns                       *)
(***************************************************************************)
\* The positions of the engine's segments whose text is not blank.
SpokenPositions(engine_segments) ==
    {i \in DOMAIN engine_segments : ~IsBlank(engine_segments[i].text)}

\* The k-th smallest member of a set of numbers.
KthOf(set, k) == CHOOSE i \in set : Cardinality({j \in set : j <= i}) = k

\* C31: every CaptionSegment try_transcribe returns has a text that is not
\* empty after trimming and the timestamps window_start_ms + start_cs * 10
\* and window_start_ms + end_cs * 10, with window_start_ms =
\* (total_samples_seen - slice_len) * 1000 / rate; start_ms <= end_ms for
\* every engine segment with start_cs <= end_cs; the engine's segments
\* with blank text are left out and the others returned in order.
C31_ReturnedSegmentsAbsoluteAndSpoken ==
    decoded.call = "ok" =>
        LET window_start_ms ==
                TruncDiv((decoded.total_samples_seen - decoded.slice_len) * 1000,
                         TARGET_RATE)
            spoken == SpokenPositions(decoded.engine.segments)
        IN  /\ Len(decoded.segments) = Cardinality(spoken)
            /\ \A k \in DOMAIN decoded.segments :
                   LET e == decoded.engine.segments[KthOf(spoken, k)]
                       c == decoded.segments[k]
                   IN  /\ Trim(c.text) # <<>>
                       /\ c.text = e.text
                       /\ c.start = window_start_ms + e.start_cs * 10
                       /\ c.end = window_start_ms + e.end_cs * 10
                       /\ e.start_cs <= e.end_cs => c.start <= c.end

\* After the window has slid, the engine returned a blank segment and a
\* spoken one, and the spoken one alone came back, past the window's start.
C31_Witness ==
    /\ decoded.call = "ok"
    /\ decoded.total_samples_seen > decoded.slice_len
    /\ Len(decoded.engine.segments) = 2
    /\ IsBlank(decoded.engine.segments[1].text)
    /\ Len(decoded.segments) = 1
    /\ decoded.segments[1].start > decoded.engine.segments[2].start_cs * 10

(***************************************************************************)
(* The streaming resampler's drain law                                     *)
(***************************************************************************)
\* C32: with engine input block size K, after N input samples delivered to
\* the streaming resampler in any pattern of successful calls, exactly
\* floor(N / K) drain steps have run, each handing one output block to the
\* callback, and the queue holds N mod K samples, fewer than K: the steps
\* run, the samples consumed and the output depend on N alone.
C32_DrainStepsDependOnTotalOnly ==
    resampler.kind = "streaming" =>
        LET K == InputFramesNext(resampler.settings)
            N == resampler.received
        IN  /\ resampler.callbacks = N \div K
            /\ resampler.consumed = (N \div K) * K
            /\ resampler.queue = N - resampler.consumed
            /\ resampler.queue < K
            /\ resampler.written = resampler.callbacks * OutputFrames(resampler.settings)
            /\ resampler.result.written =
                   resampler.written - resampler.before.written

\* The latest call added less than a block to a queue holding less than a
\* block, and the two made a drain step.
C32_Witness ==
    /\ resampler.kind = "streaming"
    /\ resampler.before.queue > 0
    /\ resampler.input_len > 0
    /\ resampler.input_len < InputFramesNext(resampler.settings)
    /\ resampler.callbacks = resampler.before.callbacks + 1
    /\ resampler.queue > 0

(***************************************************************************)
(* Properties of a start that fails after its inputs were loaded           *)
(***************************************************************************)
\* The handler of a start is past load_transcription_inputs and has not
\* returned.
StartInProgress ==
    start.pc \in {"inputs", "settings", "spawned", "built", "playing", "stored"}

\* C33: the resampler is built before the handoff buffer is created and the
\* worker is spawned, so when building it, or a later step of the start,
\* fails, the session is not marked active, no TranscriptionStarted is
\* sent and no worker of this start has been left running.
C33_FailedStartLeavesNoWorker ==
    [][(StartInProgress /\ start'.pc = "panicked") =>
          /\ ~start.worker
          /\ UNCHANGED <<state, outbox, spawned_workers>>]_vars

(***************************************************************************)
(* Properties of the worker's clock                                        *)
(***************************************************************************)
\* window_start_ms of a decode over the transcriber's window as it is.
WindowStartMs(t) ==
    TruncDiv((t.total_samples_seen - WindowLen(TranscodeAudio(t))) * 1000,
             TARGET_RATE)

\* C34: at every worker loop iteration, after accept_samples, the worker's
\* total_samples_seen equals the transcriber's, both being the number of
\* samples popped so far, so that now_ms and the segments' timestamps share
\* one clock and window_start_ms <= now_ms at every push.
C34_WorkerAndTranscriberShareClock ==
    /\ [](/\ total_samples_seen = transcriber.total_samples_seen
          /\ iter.reached # "none" =>
                 /\ push_call.now = TruncDiv(transcriber.total_samples_seen * 1000,
                                             TARGET_RATE)
                 /\ WindowStartMs(transcriber) <= push_call.now
                 /\ \A i \in DOMAIN push_call.segments :
                        push_call.segments[i].start >= WindowStartMs(transcriber))
    /\ [][total_samples_seen' # total_samples_seen =>
            /\ total_samples_seen' = total_samples_seen + iter'.pulled
            /\ transcriber'.total_samples_seen =
                   transcriber.total_samples_seen + iter'.pulled]_vars

\* The window has slid and the decode of the latest iteration returned a
\* segment, stamped past the window's start, which is past 0.
C34_Witness ==
    /\ total_samples_seen > length_samples
    /\ WindowLen(transcriber.segment_window) = length_samples
    /\ WindowStartMs(transcriber) > 0
    /\ iter.engine = "ok"
    /\ push_call.segments # <<>>
    /\ push_call.now > WindowStartMs(transcriber)

C36_AtMostOneWorkerRunning ==
    start.pc = "idle" => Cardinality(RunningWorkers) <= 1

\* C37: the stream is stored in the session state only when the worker of
\* the session has not failed to load its model, and
\* TranscriptionStartedResponse is sent only when that worker has loaded it.
C37_StartedOnlyWithLoadedDecoder ==
    [][/\ (start.pc = "playing" /\ start'.pc = "stored") =>
              workers[Len(workers)] /= "panicked"
       /\ (start.pc = "stored" /\ start'.pc = "idle") =>
              workers[Len(workers)] = "running"]_vars


(***************************************************************************)
(* Properties of the model download and the saved configuration.           *)
(***************************************************************************)
\* C39: once a model download has completed and saved its configuration,
\* the session state's config.active_model_path is the downloaded file's
\* path, and load_transcription_inputs no longer asks for a model.
C39_DownloadedModelIsActive ==
    download.pc = "saved" =>
        /\ state.active_model_path = save_path
        /\ load_transcription_inputs_any_device(state, model_file_exists).text
               /= "download a model first"

\* C40: when the download task saves its configuration, the saved file
\* holds the device id the session state holds then, whether it was
\* selected before or during the download, together with the new model
\* path.
C40_NoLostUpdate ==
    [][(download.pc = "streaming" /\ download'.pc = "saved") =>
           persisted' = [selected_device_id |-> selected_device_id,
                         active_model_path |-> save_path]]_vars


(***************************************************************************)
(* Properties of the buffer sizing for small device maxima.                *)
(***************************************************************************)
\* C38: for a device maximum of at least 1 and a device rate of at least 1
\* the division is by a denominator of at least 1 and the target buffer
\* size computed is at least 1.
C38_TargetBufferSizeIsPositive ==
    (/\ sizing.call = "target_buffer_size"
     /\ sizing.base >= 1
     /\ sizing.rate >= 1) =>
        /\ sizing.gcd >= 1
        /\ sizing.denominator >= 1
        /\ sizing.result >= 1

====
